---- MODULE Spec2Model ----
(***************************************************************************)
(* The tool-dispatch and validation layer of Trello-Desktop-MCP:           *)
(* createMCPServer's list-tools and call-tool handlers (src/server.ts),    *)
(* the board handlers (src/tools/boards.ts) and the checklist handlers     *)
(* (src/tools/checklists.ts).                                              *)
(*                                                                         *)
(* A handler runs synchronously up to its `await client.xxx(...)`, is      *)
(* suspended while the collaborator (TrelloClient) works, and resumes with *)
(* the collaborator's outcome.  inv[s] is the invocation in slot s.        *)
(***************************************************************************)
EXTENDS Integers, Sequences, FiniteSets, TLC

VARIABLES inv

vars == <<inv>>

(***************************************************************************)
(* Bounds of the model.                                                    *)
(***************************************************************************)
\* How many fields of an argument map may depart from the baseline map.
MaxOverrides == 1
\* Numeric positions tried are -1 .. MaxPos.
MaxPos == 1

(***************************************************************************)
(* Program constants.                                                      *)
(***************************************************************************)
\* /^[a-f0-9]{24}$/
IdLen == 24
\* .max(16384) of free-text fields
MaxTextLen == 16384

(***************************************************************************)
(* JavaScript values.  A value is a record whose tag t sorts before its    *)
(* payload v.  A string is the sequence of its characters.                 *)
(***************************************************************************)
Undefined == [t |-> "undefined", v |-> 0]
Null == [t |-> "null", v |-> 0]
Str(s) == [t |-> "string", v |-> s]
Num(n) == [t |-> "number", v |-> n]
Bool(b) == [t |-> "boolean", v |-> b]
\* A literal piece of program text (a message, a label), kept whole.
Lit(s) == [t |-> "literal", v |-> s]
\* A template literal `...${a}...${b}`: the sequence of its pieces.
Tpl(parts) == [t |-> "text", v |-> parts]

\* typeof-like tag that zod reports for a value (ZodParsedType)
ParsedType(v) == v.t

HexLower == {"a", "b", "c", "d", "e", "f", "0", "1", "2", "3", "4", "5", "6", "7", "8", "9"}
Digits == {"0", "1", "2", "3", "4", "5", "6", "7", "8", "9"}

\* /^[a-f0-9]{24}$/.test(s)  (no m flag: $ is the end of the input)
\* A regex that forgets the case: /^[a-f0-9]{24}$/i
IdRegexIgnoringCase(s) ==
    /\ Len(s) = IdLen
    /\ \A i \in 1..Len(s) : s[i] \in HexLower \cup {"A", "B", "C", "D", "E", "F"}

IdRegex(s) ==
    /\ Len(s) = IdLen
    /\ \A i \in 1..Len(s) : s[i] \in HexLower

\* The shape zod's datetime() accepts, without fractional seconds:
\* YYYY-MM-DDTHH:MM:SSZ
IsoDatetime(s) ==
    /\ Len(s) = 20
    /\ \A i \in {1, 2, 3, 4, 6, 7, 9, 10, 12, 13, 15, 16, 18, 19} : s[i] \in Digits
    /\ s[5] = "-" /\ s[8] = "-" /\ s[11] = "T"
    /\ s[14] = ":" /\ s[17] = ":" /\ s[20] = "Z"

(***************************************************************************)
(* zod.  A schema is a record; the constructors below mirror the chained   *)
(* calls of the source.  ParseValue returns the sequence of issue messages *)
(* of one field (empty when the value is accepted); an accepted value is   *)
(* returned as it came: the schemas of the source transform nothing.         *)
(***************************************************************************)
zString ==
    [type |-> "string", min |-> 0, minMsg |-> "String must contain at least 1 character(s)",
     hasMax |-> FALSE, max |-> 0, regex |-> FALSE, regexMsg |-> "Invalid",
     datetime |-> FALSE, values |-> {}, optional |-> FALSE, nullable |-> FALSE,
     default |-> Undefined]
zBoolean == [zString EXCEPT !.type = "boolean"]
\* An enum field declared as a plain string: z.string()
zEnumAsString(vals) == [zString EXCEPT !.values = vals]
zEnum(vals) == [zString EXCEPT !.type = "enum", !.values = vals]
\* z.union([z.number().min(0), z.enum(vals)])
zNumberMinOrEnum(n, vals) == [zString EXCEPT !.type = "union", !.min = n, !.values = vals]
zMin(sch, n) == [sch EXCEPT !.min = n]
zMinMsg(sch, n, msg) == [sch EXCEPT !.min = n, !.minMsg = msg]
zMax(sch, n) == [sch EXCEPT !.hasMax = TRUE, !.max = n]
zRegexId(sch, msg) == [sch EXCEPT !.regex = TRUE, !.regexMsg = msg]
zDatetime(sch) == [sch EXCEPT !.datetime = TRUE]
zOptional(sch) == [sch EXCEPT !.optional = TRUE]
zNullable(sch) == [sch EXCEPT !.nullable = TRUE]
zDefault(sch, d) == [sch EXCEPT !.default = d]

\* The checks of ZodString, in the order they were chained; every failed
\* check adds an issue.
StringIssues(sch, s) ==
    (IF Len(s) < sch.min THEN <<sch.minMsg>> ELSE <<>>)
    \o (IF sch.hasMax /\ Len(s) > sch.max
          THEN <<"String must contain at most max character(s)">> ELSE <<>>)
    \o (IF sch.regex /\ ~IdRegex(s) THEN <<sch.regexMsg>> ELSE <<>>)
    \o (IF sch.datetime /\ ~IsoDatetime(s) THEN <<"Invalid datetime">> ELSE <<>>)

\* ZodUnion of a number with a minimum and an enum: valid when one option is;
\* otherwise the issues of the option that got past its type check (the
\* number too small), or invalid_union.
UnionIssues(sch, v) ==
    IF ParsedType(v) = "number"
      THEN IF v.v >= sch.min THEN <<>>
           ELSE <<"Number must be greater than or equal to 0">>
      ELSE IF ParsedType(v) = "string" /\ v.v \in sch.values THEN <<>>
           ELSE <<"Invalid input">>

ParseValue(sch, v) ==
    IF v = Undefined
      THEN IF sch.optional \/ sch.default # Undefined THEN <<>> ELSE <<"Required">>
    ELSE IF v = Null /\ sch.nullable THEN <<>>
    ELSE IF sch.type = "union" THEN UnionIssues(sch, v)
    ELSE IF sch.type = "enum"
      THEN IF ParsedType(v) = "string" /\ v.v \in sch.values THEN <<>>
           ELSE <<"Invalid enum value">>
    ELSE IF ParsedType(v) # sch.type THEN <<"Expected type, received another">>
    ELSE IF sch.type = "string" THEN StringIssues(sch, v.v)
    ELSE <<>>

\* What an accepted value parses to: itself, or the schema's default when
\* the value is undefined and a default is declared.
ParsedValue(sch, v) == IF v = Undefined THEN sch.default ELSE v

\* A raw argument is anything the caller sent: an object (its fields; a
\* field not sent reads as undefined) or not an object at all.
RawObject(fields) == [t |-> "object", v |-> fields]
Field(raw, k) == IF raw.t = "object" /\ k \in DOMAIN raw.v THEN raw.v[k] ELSE Undefined

RECURSIVE ShapeIssues(_, _, _)
ShapeIssues(shape, raw, i) ==
    IF i > Len(shape) THEN <<>>
    ELSE LET msgs == ParseValue(shape[i].sch, Field(raw, shape[i].key))
         IN  [j \in 1..Len(msgs) |-> [path |-> shape[i].key, message |-> msgs[j]]]
             \o ShapeIssues(shape, raw, i + 1)

ShapeKeys(shape) == {shape[i].key : i \in 1..Len(shape)}
KeyIndex(shape, k) == (CHOOSE i \in 1..Len(shape) : shape[i].key = k)

\* z.object(shape).parse(raw): the validated arguments (the declared keys
\* only: unknown keys are stripped), or a ZodError holding every issue.
ZodObjectParse(shape, raw) ==
    IF ParsedType(raw) # "object"
      THEN [ok |-> FALSE, data |-> <<>>,
            issues |-> <<[path |-> "", message |->
                          IF raw = Undefined THEN "Required"
                          ELSE "Expected object, received another"]>>]
      ELSE LET issues == ShapeIssues(shape, raw, 1)
           IN  IF issues # <<>>
                 THEN [ok |-> FALSE, data |-> <<>>, issues |-> issues]
                 ELSE [ok |-> TRUE,
                       data |-> [k \in ShapeKeys(shape) |->
                                   ParsedValue(shape[KeyIndex(shape, k)].sch, Field(raw, k))],
                       issues |-> <<>>]


(***************************************************************************)
(* The validators.                                                         *)
(***************************************************************************)
F(k, sch) == [key |-> k, sch |-> sch]

top == <<"t", "o", "p">>
bottom == <<"b", "o", "t", "t", "o", "m">>
PermissionLevels ==
    {<<"o", "r", "g">>, <<"p", "r", "i", "v", "a", "t", "e">>,
     <<"p", "u", "b", "l", "i", "c">>,
     <<"e", "n", "t", "e", "r", "p", "r", "i", "s", "e">>}
CheckItemStates ==
    {<<"c", "o", "m", "p", "l", "e", "t", "e">>,
     <<"i", "n", "c", "o", "m", "p", "l", "e", "t", "e">>}
open == <<"o", "p", "e", "n">>
Filters == {<<"a", "l", "l">>, open, <<"c", "l", "o", "s", "e", "d">>}

\* A credential schema that forgets min(1): z.string()
apiKeySchemaAllowingEmpty == zString
apiKeySchema == zMinMsg(zString, 1, "API key is required")
tokenSchema == zMinMsg(zString, 1, "Token is required")
trelloId == zRegexId(zString, "Invalid Trello ID format")
\* A position schema whose number branch is min(1)
posSchemaPositive == zOptional(zNumberMinOrEnum(1, {top, bottom}))
posSchema == zOptional(zNumberMinOrEnum(0, {top, bottom}))

createBoardShape ==
    <<F("apiKey", apiKeySchema),
      F("token", tokenSchema),
      F("name", zMax(zMinMsg(zString, 1, "Board name is required"), MaxTextLen)),
      F("desc", zOptional(zMax(zString, MaxTextLen))),
      F("idOrganization", zOptional(zRegexId(zString, "Invalid organization ID"))),
      F("defaultLabels", zOptional(zBoolean)),
      F("defaultLists", zOptional(zBoolean)),
      F("prefs_permissionLevel", zOptional(zEnum(PermissionLevels))),
      F("prefs_background", zOptional(zString))>>

validateCreateBoard(args) == ZodObjectParse(createBoardShape, args)

createChecklistShape ==
    <<F("apiKey", apiKeySchema),
      F("token", tokenSchema),
      F("idCard", trelloId),
      F("name", zOptional(zMax(zMin(zString, 1), MaxTextLen))),
      F("pos", posSchema),
      F("idChecklistSource", zOptional(trelloId))>>

validateCreateChecklist(args) == ZodObjectParse(createChecklistShape, args)

getChecklistShape ==
    <<F("apiKey", apiKeySchema), F("token", tokenSchema), F("checklistId", trelloId)>>

validateGetChecklist(args) == ZodObjectParse(getChecklistShape, args)

updateChecklistShape ==
    <<F("apiKey", apiKeySchema),
      F("token", tokenSchema),
      F("checklistId", trelloId),
      F("name", zOptional(zMax(zMin(zString, 1), MaxTextLen))),
      F("pos", posSchema)>>

validateUpdateChecklist(args) == ZodObjectParse(updateChecklistShape, args)

deleteChecklistShape ==
    <<F("apiKey", apiKeySchema), F("token", tokenSchema), F("checklistId", trelloId)>>

validateDeleteChecklist(args) == ZodObjectParse(deleteChecklistShape, args)

createChecklistItemShape ==
    <<F("apiKey", apiKeySchema),
      F("token", tokenSchema),
      F("checklistId", trelloId),
      F("name", zMax(zMinMsg(zString, 1, "Item name is required"), MaxTextLen)),
      F("pos", posSchema),
      F("checked", zOptional(zBoolean)),
      F("due", zOptional(zDatetime(zString))),
      F("idMember", zOptional(trelloId))>>

validateCreateChecklistItem(args) == ZodObjectParse(createChecklistItemShape, args)

updateChecklistItemShape ==
    <<F("apiKey", apiKeySchema),
      F("token", tokenSchema),
      F("cardId", trelloId),
      F("checkItemId", trelloId),
      F("state", zOptional(zEnum(CheckItemStates))),
      F("name", zOptional(zMax(zMin(zString, 1), MaxTextLen))),
      F("pos", posSchema),
      F("due", zOptional(zNullable(zDatetime(zString)))),
      F("idMember", zOptional(zNullable(trelloId))),
      F("idChecklist", zOptional(trelloId))>>

validateUpdateChecklistItem(args) == ZodObjectParse(updateChecklistItemShape, args)

deleteChecklistItemShape ==
    <<F("apiKey", apiKeySchema),
      F("token", tokenSchema),
      F("checklistId", trelloId),
      F("checkItemId", trelloId)>>

validateDeleteChecklistItem(args) == ZodObjectParse(deleteChecklistItemShape, args)

(***************************************************************************)
(* utils/validation.ts: the validators the board read handlers import and  *)
(* formatValidationError.  Their fields are those the handlers destructure *)
(* and the tools' input schemas declare.                                   *)
(***************************************************************************)
listBoardsShape ==
    <<F("apiKey", apiKeySchema),
      F("token", tokenSchema),
      F("filter", zDefault(zEnum(Filters), Str(open)))>>

validateListBoards(args) == ZodObjectParse(listBoardsShape, args)

getBoardShape ==
    <<F("apiKey", apiKeySchema),
      F("token", tokenSchema),
      F("boardId", zRegexId(zString, "Invalid board ID format")),
      F("includeDetails", zDefault(zBoolean, Bool(FALSE)))>>

validateGetBoard(args) == ZodObjectParse(getBoardShape, args)

getBoardListsShape ==
    <<F("apiKey", apiKeySchema),
      F("token", tokenSchema),
      F("boardId", zRegexId(zString, "Invalid board ID format")),
      F("filter", zDefault(zEnum(Filters), Str(open)))>>

validateGetBoardLists(args) == ZodObjectParse(getBoardListsShape, args)

\* One message naming every issue: "path: message" for each, joined.
RECURSIVE JoinIssues(_, _)
JoinIssues(issues, i) ==
    IF i > Len(issues) THEN <<>>
    ELSE (IF i > 1 THEN <<Lit(", ")>> ELSE <<>>)
         \o <<Lit(issues[i].path), Lit(": "), Lit(issues[i].message)>>
         \o JoinIssues(issues, i + 1)

formatValidationError(error) == Tpl(JoinIssues(error.issues, 1))


(***************************************************************************)
(* Objects, property access, JSON.stringify.                               *)
(***************************************************************************)
None == [t |-> "none", v |-> 0]
\* The outcome of a collaborator call that has not been answered (or made).
NotYet == [kind |-> "none", value |-> None, error |-> None]
Obj(f) == [t |-> "object", v |-> f]
Arr(q) == [t |-> "array", v |-> q]

Nullish(v) == v.t \in {"undefined", "null"}
\* o.k, for an o that is neither undefined nor null
Get(o, k) == IF o.t = "object" /\ k \in DOMAIN o.v THEN o.v[k] ELSE Undefined
\* o?.k
OptGet(o, k) == IF Nullish(o) THEN Undefined ELSE Get(o, k)
Falsy(v) ==
    \/ Nullish(v)
    \/ v = Bool(FALSE)
    \/ v = Num(0)
    \/ v = Str(<<>>)
\* a || b
OrElse(a, b) == IF Falsy(a) THEN b ELSE a
\* a ?? b
Coalesce(a, b) == IF Nullish(a) THEN b ELSE a

\* JSON.stringify(value, null, 2), as what the text parses back to: a
\* property whose value is undefined is left out, an undefined array
\* element becomes null.
RECURSIVE Serialized(_)
Serialized(v) ==
    IF v.t = "object"
      THEN Obj([k \in {x \in DOMAIN v.v : v.v[x] # Undefined} |-> Serialized(v.v[k])])
    ELSE IF v.t = "array"
      THEN Arr([i \in 1..Len(v.v) |->
                  IF v.v[i] = Undefined THEN Null ELSE Serialized(v.v[i])])
    ELSE v

JSONstringify(v) == [t |-> "json", v |-> Serialized(v)]

(***************************************************************************)
(* How a try body ends: at its await, with a return, or with a throw.      *)
(***************************************************************************)
Await(call) == [kind |-> "await", call |-> call, value |-> None, error |-> None]
Return(value) == [kind |-> "return", call |-> None, value |-> value, error |-> None]
Throw(error) == [kind |-> "throw", call |-> None, value |-> None, error |-> error]

ZodError(issues) ==
    [class |-> "ZodError", instanceofError |-> TRUE, issues |-> issues, message |-> Lit("zod")]
Error(message) ==
    [class |-> "Error", instanceofError |-> TRUE, issues |-> <<>>, message |-> message]
\* Reading a property of undefined or null
TypeError == [class |-> "TypeError", instanceofError |-> TRUE, issues |-> <<>>,
              message |-> Lit("Cannot read properties of undefined")]
\* A thrown value that is no Error
Thrown(value) ==
    [class |-> "value", instanceofError |-> FALSE, issues |-> <<>>, message |-> value]

\* client.method(...ids, data) of a client built from { apiKey, token }
Request(method, v, ids, data) ==
    [method |-> method, apiKey |-> v.apiKey, token |-> v.token, ids |-> ids, data |-> data]

\* { a, ...(b !== undefined && { b }), ... }: the keys always set, and
\* those of ifDefined whose value is not undefined
Pick(v, always, ifDefined) ==
    [k \in always \cup {x \in ifDefined : v[x] # Undefined} |-> v[k]]

\* return { content: [{ type: 'text', text: JSON.stringify(result, null, 2) }] }
SuccessEnvelope(result) ==
    [content |-> <<[type |-> "text", text |-> JSONstringify(result)]>>]

\* A catch block that handles validation errors only and rethrows the rest.
CatchOnlyZodError(description, completion) ==
    IF completion.kind = "throw" /\ completion.error.class = "ZodError"
      THEN Return([content |-> <<[type |-> "text",
                                  text |-> Tpl(<<Lit("Error "), Lit(description), Lit(": "),
                                                 formatValidationError(completion.error)>>)]>>,
                   isError |-> TRUE])
      ELSE completion

\* A catch block that reports an error without marking the envelope.
CatchUnmarked(description, completion) ==
    IF completion.kind # "throw" THEN completion
    ELSE Return([content |-> <<[type |-> "text",
                                text |-> Tpl(<<Lit("Error "), Lit(description), Lit(": "),
                                               completion.error.message>>)]>>])

\* catch (error) { ... return { content: [...`Error doing X: ${errorMessage}`], isError: true } }
\* around a try body that ended as `completion`; the template literal is
\* kept as its pieces: "Error ", the description, ": ", the message.
\* A catch block that reports the first issue of a ZodError only.
CatchReportingFirstIssue(description, completion) ==
    IF completion.kind # "throw" THEN completion
    ELSE LET error == completion.error
             errorMessage ==
                 IF error.class = "ZodError"
                   THEN formatValidationError([error EXCEPT !.issues = SubSeq(@, 1, 1)])
                 ELSE IF error.instanceofError THEN error.message
                 ELSE Lit("Unknown error occurred")
         IN  Return([content |-> <<[type |-> "text",
                                    text |-> Tpl(<<Lit("Error "), Lit(description), Lit(": "),
                                                   errorMessage>>)]>>,
                     isError |-> TRUE])

Catch(description, completion) ==
    IF completion.kind # "throw" THEN completion
    ELSE LET error == completion.error
             errorMessage ==
                 IF error.class = "ZodError" THEN formatValidationError(error)
                 ELSE IF error.instanceofError THEN error.message
                 ELSE Lit("Unknown error occurred")
         IN  Return([content |-> <<[type |-> "text",
                                    text |-> Tpl(<<Lit("Error "), Lit(description), Lit(": "),
                                                   errorMessage>>)]>>,
                     isError |-> TRUE])

\* Reading a property of obj before going on as `completion`
Reading(obj, completion) == IF Nullish(obj) THEN Throw(TypeError) ELSE completion

\* xs.map(f) of a value that must be an array, before going on
Mapping(xs, completion) == IF xs.t # "array" THEN Throw(TypeError) ELSE completion


(***************************************************************************)
(* src/tools/boards.ts                                                     *)
(***************************************************************************)
\* A createBoard payload that always carries desc.
createBoardParamsForwardingDesc(v) ==
    Pick(v, {"name", "desc"},
         {"idOrganization", "defaultLabels", "defaultLists",
          "prefs_permissionLevel", "prefs_background"})

createBoardParams(v) ==
    Pick(v, {"name"},
         {"desc", "idOrganization", "defaultLabels", "defaultLists",
          "prefs_permissionLevel", "prefs_background"})

createBoardResult(response) ==
    LET board == Get(response, "data")
    IN  Obj([summary |-> Tpl(<<Lit("Created board: "), Get(board, "name")>>),
             board |-> Obj([id |-> Get(board, "id"),
                            name |-> Get(board, "name"),
                            description |-> OrElse(Get(board, "desc"), Lit("No description")),
                            url |-> Get(board, "shortUrl"),
                            closed |-> Get(board, "closed"),
                            permissionLevel |-> OptGet(Get(board, "prefs"), "permissionLevel")]),
             rateLimit |-> Get(response, "rateLimit")])

\* The try body of handleCreateBoard; outcome is NotYet until the
\* collaborator has answered.
handleCreateBoardTry(args, outcome) ==
    LET parsed == validateCreateBoard(args)
    IN  IF ~parsed.ok THEN Throw(ZodError(parsed.issues))
        ELSE IF outcome = NotYet
          THEN Await(Request("createBoard", parsed.data, <<>>, createBoardParams(parsed.data)))
        ELSE IF outcome.kind = "rejected" THEN Throw(outcome.error)
        ELSE LET response == outcome.value
             IN  Reading(response, Reading(Get(response, "data"),
                     Return(SuccessEnvelope(createBoardResult(response)))))

boardListItem(board) ==
    Obj([id |-> Get(board, "id"),
         name |-> Get(board, "name"),
         description |-> OrElse(Get(board, "desc"), Lit("No description")),
         url |-> Get(board, "shortUrl"),
         lastActivity |-> Get(board, "dateLastActivity"),
         closed |-> Get(board, "closed")])

listBoardsResult(response, filter) ==
    LET boards == Get(response, "data")
    IN  Obj([summary |-> Tpl(<<Lit("Found "), Num(Len(boards.v)), Lit(" "), filter,
                               Lit(" board(s)")>>),
             boards |-> Arr([i \in 1..Len(boards.v) |-> boardListItem(boards.v[i])]),
             rateLimit |-> Get(response, "rateLimit")])

\* A handler that asks for the boards without handing the filter on.
handleListBoardsTryUnfiltered(args, outcome) ==
    LET parsed == validateListBoards(args)
    IN  IF ~parsed.ok THEN Throw(ZodError(parsed.issues))
        ELSE IF outcome = NotYet
          THEN Await(Request("getMyBoards", parsed.data, [filter |-> Undefined], <<>>))
        ELSE IF outcome.kind = "rejected" THEN Throw(outcome.error)
        ELSE LET response == outcome.value
             IN  Reading(response, Reading(Get(response, "data"),
                   Mapping(Get(response, "data"),
                     Return(SuccessEnvelope(listBoardsResult(response, parsed.data.filter))))))

handleListBoardsTry(args, outcome) ==
    LET parsed == validateListBoards(args)
    IN  IF ~parsed.ok THEN Throw(ZodError(parsed.issues))
        ELSE IF outcome = NotYet
          THEN Await(Request("getMyBoards", parsed.data, [filter |-> parsed.data.filter], <<>>))
        ELSE IF outcome.kind = "rejected" THEN Throw(outcome.error)
        ELSE LET response == outcome.value
             IN  Reading(response, Reading(Get(response, "data"),
                   Mapping(Get(response, "data"),
                     Return(SuccessEnvelope(listBoardsResult(response, parsed.data.filter))))))

detailList(list) ==
    Obj([id |-> Get(list, "id"), name |-> Get(list, "name"),
         position |-> Get(list, "pos"), closed |-> Get(list, "closed")])

detailLabel(label) ==
    Obj([id |-> Get(label, "id"), name |-> Get(label, "name"), color |-> Get(label, "color")])

detailCard(card) ==
    LET labels == Get(card, "labels")
    IN  Obj([id |-> Get(card, "id"), name |-> Get(card, "name"),
             description |-> Get(card, "desc"), url |-> Get(card, "shortUrl"),
             listId |-> Get(card, "idList"), position |-> Get(card, "pos"),
             due |-> Get(card, "due"), closed |-> Get(card, "closed"),
             labels |-> IF Nullish(labels) THEN Arr(<<>>)
                        ELSE Arr([i \in 1..Len(labels.v) |-> detailLabel(labels.v[i])])])

\* The expansion without the `|| []` after the optional chains.
boardDetailsWithoutFallback(board, includeDetails) ==
    LET lists == Get(board, "lists")
        cards == Get(board, "cards")
    IN  IF Falsy(includeDetails) THEN <<>>
        ELSE [lists |-> IF Nullish(lists) THEN Undefined
                        ELSE Arr([i \in 1..Len(lists.v) |-> detailList(lists.v[i])]),
              cards |-> IF Nullish(cards) THEN Undefined
                        ELSE Arr([i \in 1..Len(cards.v) |-> detailCard(cards.v[i])])]

\* ...(includeDetails && { lists: ... || [], cards: ... || [] })
boardDetails(board, includeDetails) ==
    LET lists == Get(board, "lists")
        cards == Get(board, "cards")
    IN  IF Falsy(includeDetails) THEN <<>>
        ELSE [lists |-> IF Nullish(lists) THEN Arr(<<>>)
                        ELSE Arr([i \in 1..Len(lists.v) |-> detailList(lists.v[i])]),
              cards |-> IF Nullish(cards) THEN Arr(<<>>)
                        ELSE Arr([i \in 1..Len(cards.v) |-> detailCard(cards.v[i])])]

getBoardDetailsResult(response, includeDetails) ==
    LET board == Get(response, "data")
        base == [id |-> Get(board, "id"),
                 name |-> Get(board, "name"),
                 description |-> OrElse(Get(board, "desc"), Lit("No description")),
                 url |-> Get(board, "shortUrl"),
                 lastActivity |-> Get(board, "dateLastActivity"),
                 closed |-> Get(board, "closed"),
                 permissions |-> OrElse(OptGet(Get(board, "prefs"), "permissionLevel"),
                                        Lit("unknown"))]
        details == boardDetails(board, includeDetails)
    IN  Obj([summary |-> Tpl(<<Lit("Board: "), Get(board, "name")>>),
             board |-> Obj([k \in DOMAIN base \cup DOMAIN details |->
                              IF k \in DOMAIN details THEN details[k] ELSE base[k]]),
             rateLimit |-> Get(response, "rateLimit")])

handleGetBoardDetailsTry(args, outcome) ==
    LET parsed == validateGetBoard(args)
    IN  IF ~parsed.ok THEN Throw(ZodError(parsed.issues))
        ELSE IF outcome = NotYet
          THEN Await(Request("getBoard", parsed.data,
                             [boardId |-> parsed.data.boardId,
                              includeDetails |-> parsed.data.includeDetails], <<>>))
        ELSE IF outcome.kind = "rejected" THEN Throw(outcome.error)
        ELSE LET response == outcome.value
             IN  Reading(response, Reading(Get(response, "data"),
                     Return(SuccessEnvelope(
                         getBoardDetailsResult(response, parsed.data.includeDetails)))))

boardList(list) ==
    Obj([id |-> Get(list, "id"), name |-> Get(list, "name"),
         position |-> Get(list, "pos"), closed |-> Get(list, "closed"),
         subscribed |-> Get(list, "subscribed")])

getListsResult(response, boardId, filter) ==
    LET lists == Get(response, "data")
    IN  Obj([summary |-> Tpl(<<Lit("Found "), Num(Len(lists.v)), Lit(" "), filter,
                               Lit(" list(s) in board")>>),
             boardId |-> boardId,
             lists |-> Arr([i \in 1..Len(lists.v) |-> boardList(lists.v[i])]),
             rateLimit |-> Get(response, "rateLimit")])

handleGetListsTry(args, outcome) ==
    LET parsed == validateGetBoardLists(args)
    IN  IF ~parsed.ok THEN Throw(ZodError(parsed.issues))
        ELSE IF outcome = NotYet
          THEN Await(Request("getBoardLists", parsed.data,
                             [boardId |-> parsed.data.boardId,
                              filter |-> parsed.data.filter], <<>>))
        ELSE IF outcome.kind = "rejected" THEN Throw(outcome.error)
        ELSE LET response == outcome.value
             IN  Reading(response, Reading(Get(response, "data"),
                   Mapping(Get(response, "data"),
                     Return(SuccessEnvelope(
                         getListsResult(response, parsed.data.boardId, parsed.data.filter))))))


(***************************************************************************)
(* src/tools/checklists.ts                                                 *)
(***************************************************************************)
createChecklistParams(v) == Pick(v, {"idCard"}, {"name", "pos", "idChecklistSource"})

createChecklistResult(response) ==
    LET checklist == Get(response, "data")
    IN  Obj([summary |-> Tpl(<<Lit("Created checklist \""), Get(checklist, "name"),
                               Lit("\" on card")>>),
             checklist |-> Obj([id |-> Get(checklist, "id"),
                                name |-> Get(checklist, "name"),
                                position |-> Get(checklist, "pos"),
                                cardId |-> Get(checklist, "idCard"),
                                boardId |-> Get(checklist, "idBoard"),
                                checkItems |-> Coalesce(Get(checklist, "checkItems"), Arr(<<>>))]),
             rateLimit |-> Get(response, "rateLimit")])

handleTrelloCreateChecklistTry(args, outcome) ==
    LET parsed == validateCreateChecklist(args)
    IN  IF ~parsed.ok THEN Throw(ZodError(parsed.issues))
        ELSE IF outcome = NotYet
          THEN Await(Request("createChecklist", parsed.data, <<>>,
                             createChecklistParams(parsed.data)))
        ELSE IF outcome.kind = "rejected" THEN Throw(outcome.error)
        ELSE LET response == outcome.value
             IN  Reading(response, Reading(Get(response, "data"),
                     Return(SuccessEnvelope(createChecklistResult(response)))))

checkItemOfChecklist(item) ==
    Obj([id |-> Get(item, "id"), name |-> Get(item, "name"), state |-> Get(item, "state"),
         position |-> Get(item, "pos"), due |-> Get(item, "due"),
         idMember |-> Get(item, "idMember")])

getChecklistResult(response) ==
    LET checklist == Get(response, "data")
        checkItems == Get(checklist, "checkItems")
    IN  Obj([summary |-> Tpl(<<Lit("Checklist: "), Get(checklist, "name")>>),
             checklist |-> Obj([id |-> Get(checklist, "id"),
                                name |-> Get(checklist, "name"),
                                position |-> Get(checklist, "pos"),
                                cardId |-> Get(checklist, "idCard"),
                                boardId |-> Get(checklist, "idBoard"),
                                checkItems |->
                                    IF Nullish(checkItems) THEN Arr(<<>>)
                                    ELSE Arr([i \in 1..Len(checkItems.v) |->
                                                checkItemOfChecklist(checkItems.v[i])])]),
             rateLimit |-> Get(response, "rateLimit")])

handleTrelloGetChecklistTry(args, outcome) ==
    LET parsed == validateGetChecklist(args)
    IN  IF ~parsed.ok THEN Throw(ZodError(parsed.issues))
        ELSE IF outcome = NotYet
          THEN Await(Request("getChecklist", parsed.data,
                             [checklistId |-> parsed.data.checklistId], <<>>))
        ELSE IF outcome.kind = "rejected" THEN Throw(outcome.error)
        ELSE LET response == outcome.value
             IN  Reading(response, Reading(Get(response, "data"),
                     Return(SuccessEnvelope(getChecklistResult(response)))))

updateChecklistParams(v) == Pick(v, {}, {"name", "pos"})

updateChecklistResult(response) ==
    LET checklist == Get(response, "data")
    IN  Obj([summary |-> Tpl(<<Lit("Updated checklist \""), Get(checklist, "name"), Lit("\"")>>),
             checklist |-> Obj([id |-> Get(checklist, "id"),
                                name |-> Get(checklist, "name"),
                                position |-> Get(checklist, "pos"),
                                cardId |-> Get(checklist, "idCard"),
                                boardId |-> Get(checklist, "idBoard")]),
             rateLimit |-> Get(response, "rateLimit")])

handleTrelloUpdateChecklistTry(args, outcome) ==
    LET parsed == validateUpdateChecklist(args)
    IN  IF ~parsed.ok THEN Throw(ZodError(parsed.issues))
        ELSE IF outcome = NotYet
          THEN Await(Request("updateChecklist", parsed.data,
                             [checklistId |-> parsed.data.checklistId],
                             updateChecklistParams(parsed.data)))
        ELSE IF outcome.kind = "rejected" THEN Throw(outcome.error)
        ELSE LET response == outcome.value
             IN  Reading(response, Reading(Get(response, "data"),
                     Return(SuccessEnvelope(updateChecklistResult(response)))))

deleteChecklistResult(checklistId) ==
    Obj([summary |-> Tpl(<<Lit("Deleted checklist "), checklistId>>),
         checklistId |-> checklistId,
         deleted |-> Bool(TRUE)])

\* The response of deleteChecklist is awaited and not read.
\* A handler that calls the client with the raw arguments and validates
\* them only once the call has settled.
handleTrelloDeleteChecklistTryCallingFirst(args, outcome) ==
    IF outcome = NotYet
      THEN Await([method |-> "deleteChecklist",
                  apiKey |-> Field(args, "apiKey"), token |-> Field(args, "token"),
                  ids |-> [checklistId |-> Field(args, "checklistId")], data |-> <<>>])
    ELSE LET parsed == validateDeleteChecklist(args)
         IN  IF ~parsed.ok THEN Throw(ZodError(parsed.issues))
             ELSE IF outcome.kind = "rejected" THEN Throw(outcome.error)
             ELSE Return(SuccessEnvelope(deleteChecklistResult(parsed.data.checklistId)))

handleTrelloDeleteChecklistTry(args, outcome) ==
    LET parsed == validateDeleteChecklist(args)
    IN  IF ~parsed.ok THEN Throw(ZodError(parsed.issues))
        ELSE IF outcome = NotYet
          THEN Await(Request("deleteChecklist", parsed.data,
                             [checklistId |-> parsed.data.checklistId], <<>>))
        ELSE IF outcome.kind = "rejected" THEN Throw(outcome.error)
        ELSE Return(SuccessEnvelope(deleteChecklistResult(parsed.data.checklistId)))

\* A payload that is the validated object as a whole.
createChecklistItemParamsWhole(v) == v

createChecklistItemParams(v) == Pick(v, {"name"}, {"pos", "checked", "due", "idMember"})

createChecklistItemResult(response) ==
    LET item == Get(response, "data")
    IN  Obj([summary |-> Tpl(<<Lit("Created check item \""), Get(item, "name"), Lit("\"")>>),
             checkItem |-> Obj([id |-> Get(item, "id"),
                                name |-> Get(item, "name"),
                                state |-> Get(item, "state"),
                                position |-> Get(item, "pos"),
                                due |-> Get(item, "due"),
                                idMember |-> Get(item, "idMember"),
                                checklistId |-> Get(item, "idChecklist")]),
             rateLimit |-> Get(response, "rateLimit")])

handleTrelloCreateChecklistItemTry(args, outcome) ==
    LET parsed == validateCreateChecklistItem(args)
    IN  IF ~parsed.ok THEN Throw(ZodError(parsed.issues))
        ELSE IF outcome = NotYet
          THEN Await(Request("createChecklistItem", parsed.data,
                             [checklistId |-> parsed.data.checklistId],
                             createChecklistItemParams(parsed.data)))
        ELSE IF outcome.kind = "rejected" THEN Throw(outcome.error)
        ELSE LET response == outcome.value
             IN  Reading(response, Reading(Get(response, "data"),
                     Return(SuccessEnvelope(createChecklistItemResult(response)))))

\* An update payload that sends only the fields that hold a value, so that
\* a null is dropped like an omission.
updateChecklistItemParamsDroppingNull(v) ==
    [k \in {x \in {"state", "name", "pos", "due", "idMember", "idChecklist"} :
              ~Nullish(v[x])} |-> v[k]]

\* A payload that leaves the move to another checklist to a call of its own.
updateChecklistItemParamsWithoutMove(v) ==
    Pick(v, {}, {"state", "name", "pos", "due", "idMember"})

updateChecklistItemParams(v) ==
    Pick(v, {}, {"state", "name", "pos", "due", "idMember", "idChecklist"})

updateChecklistItemResult(response) ==
    LET item == Get(response, "data")
    IN  Obj([summary |-> Tpl(<<Lit("Updated check item \""), Get(item, "name"), Lit("\"")>>),
             checkItem |-> Obj([id |-> Get(item, "id"),
                                name |-> Get(item, "name"),
                                state |-> Get(item, "state"),
                                position |-> Get(item, "pos"),
                                due |-> Get(item, "due"),
                                idMember |-> Get(item, "idMember"),
                                checklistId |-> Get(item, "idChecklist"),
                                cardId |-> Get(item, "idCard")]),
             rateLimit |-> Get(response, "rateLimit")])

handleTrelloUpdateChecklistItemTry(args, outcome) ==
    LET parsed == validateUpdateChecklistItem(args)
    IN  IF ~parsed.ok THEN Throw(ZodError(parsed.issues))
        ELSE IF outcome = NotYet
          THEN Await(Request("updateChecklistItem", parsed.data,
                             [cardId |-> parsed.data.cardId,
                              checkItemId |-> parsed.data.checkItemId],
                             updateChecklistItemParams(parsed.data)))
        ELSE IF outcome.kind = "rejected" THEN Throw(outcome.error)
        ELSE LET response == outcome.value
             IN  Reading(response, Reading(Get(response, "data"),
                     Return(SuccessEnvelope(updateChecklistItemResult(response)))))

deleteChecklistItemResult(checklistId, checkItemId) ==
    Obj([summary |-> Tpl(<<Lit("Deleted check item "), checkItemId,
                           Lit(" from checklist "), checklistId>>),
         checklistId |-> checklistId,
         checkItemId |-> checkItemId,
         deleted |-> Bool(TRUE)])

\* A handler that confirms the deletion however the client call ended.
handleTrelloDeleteChecklistItemTryConfirmingRegardless(args, outcome) ==
    LET parsed == validateDeleteChecklistItem(args)
    IN  IF ~parsed.ok THEN Throw(ZodError(parsed.issues))
        ELSE IF outcome = NotYet
          THEN Await(Request("deleteChecklistItem", parsed.data,
                             [checklistId |-> parsed.data.checklistId,
                              checkItemId |-> parsed.data.checkItemId], <<>>))
        ELSE Return(SuccessEnvelope(
                 deleteChecklistItemResult(parsed.data.checklistId, parsed.data.checkItemId)))

handleTrelloDeleteChecklistItemTry(args, outcome) ==
    LET parsed == validateDeleteChecklistItem(args)
    IN  IF ~parsed.ok THEN Throw(ZodError(parsed.issues))
        ELSE IF outcome = NotYet
          THEN Await(Request("deleteChecklistItem", parsed.data,
                             [checklistId |-> parsed.data.checklistId,
                              checkItemId |-> parsed.data.checkItemId], <<>>))
        ELSE IF outcome.kind = "rejected" THEN Throw(outcome.error)
        ELSE Return(SuccessEnvelope(
                 deleteChecklistItemResult(parsed.data.checklistId, parsed.data.checkItemId)))


(***************************************************************************)
(* The handlers of tools/cards.ts, search.ts, lists.ts, members.ts and     *)
(* advanced.ts, which createMCPServer imports: each follows the uniform    *)
(* handler algorithm (validate, one collaborator call carrying the fields  *)
(* present, a result with a summary, the projected entity and the rate     *)
(* limit; an error envelope otherwise) over the key fields of its          *)
(* catalog entry.                                                          *)
(***************************************************************************)
catalogId == zRegexId(zString, "Invalid ID format")

\* The key fields of each operation besides the credentials.
catalogFields(h) ==
    CASE
         h = "handleTrelloSearch" ->
          <<F("query", zMin(zString, 1))>>
      [] h = "handleTrelloGetUserBoards" ->
          <<>>
      [] h = "handleGetCard" ->
          <<F("cardId", catalogId)>>
      [] h = "handleCreateCard" ->
          <<F("listId", catalogId), F("name", zMin(zString, 1))>>
      [] h = "handleUpdateCard" ->
          <<F("cardId", catalogId), F("name", zOptional(zMin(zString, 1)))>>
      [] h = "handleMoveCard" ->
          <<F("cardId", catalogId), F("listId", catalogId)>>
      [] h = "handleTrelloAddComment" ->
          <<F("cardId", catalogId), F("text", zMin(zString, 1))>>
      [] h = "handleTrelloGetListCards" ->
          <<F("listId", catalogId)>>
      [] h = "handleTrelloCreateList" ->
          <<F("boardId", catalogId), F("name", zMin(zString, 1))>>
      [] h = "handleTrelloGetMember" ->
          <<F("memberId", zMin(zString, 1))>>
      [] h = "handleTrelloGetBoardCards" ->
          <<F("boardId", catalogId)>>
      [] h = "handleTrelloGetCardActions" ->
          <<F("cardId", catalogId)>>
      [] h = "handleTrelloGetCardAttachments" ->
          <<F("cardId", catalogId)>>
      [] h = "handleTrelloGetCardChecklists" ->
          <<F("cardId", catalogId)>>
      [] h = "handleTrelloGetBoardMembers" ->
          <<F("boardId", catalogId)>>
      [] h = "handleTrelloGetBoardLabels" ->
          <<F("boardId", catalogId)>>

catalogShape(h) ==
    <<F("apiKey", apiKeySchema), F("token", tokenSchema)>> \o catalogFields(h)

catalogMethod(h) ==
    CASE
         h = "handleTrelloSearch" -> "search"
      [] h = "handleTrelloGetUserBoards" -> "getMyBoards"
      [] h = "handleGetCard" -> "getCard"
      [] h = "handleCreateCard" -> "createCard"
      [] h = "handleUpdateCard" -> "updateCard"
      [] h = "handleMoveCard" -> "moveCard"
      [] h = "handleTrelloAddComment" -> "addComment"
      [] h = "handleTrelloGetListCards" -> "getListCards"
      [] h = "handleTrelloCreateList" -> "createList"
      [] h = "handleTrelloGetMember" -> "getMember"
      [] h = "handleTrelloGetBoardCards" -> "getBoardCards"
      [] h = "handleTrelloGetCardActions" -> "getCardActions"
      [] h = "handleTrelloGetCardAttachments" -> "getCardAttachments"
      [] h = "handleTrelloGetCardChecklists" -> "getCardChecklists"
      [] h = "handleTrelloGetBoardMembers" -> "getBoardMembers"
      [] h = "handleTrelloGetBoardLabels" -> "getBoardLabels"

catalogDescription(h) ==
    CASE
         h = "handleTrelloSearch" -> "searching Trello"
      [] h = "handleTrelloGetUserBoards" -> "getting user boards"
      [] h = "handleGetCard" -> "getting card"
      [] h = "handleCreateCard" -> "creating card"
      [] h = "handleUpdateCard" -> "updating card"
      [] h = "handleMoveCard" -> "moving card"
      [] h = "handleTrelloAddComment" -> "adding comment"
      [] h = "handleTrelloGetListCards" -> "getting list cards"
      [] h = "handleTrelloCreateList" -> "creating list"
      [] h = "handleTrelloGetMember" -> "getting member"
      [] h = "handleTrelloGetBoardCards" -> "getting board cards"
      [] h = "handleTrelloGetCardActions" -> "getting card actions"
      [] h = "handleTrelloGetCardAttachments" -> "getting card attachments"
      [] h = "handleTrelloGetCardChecklists" -> "getting card checklists"
      [] h = "handleTrelloGetBoardMembers" -> "getting board members"
      [] h = "handleTrelloGetBoardLabels" -> "getting board labels"

catalogResult(h, response) ==
    LET entity == Get(response, "data")
    IN  Obj([summary |-> Tpl(<<Lit(catalogMethod(h)), Lit(": "),
                               OrElse(OptGet(entity, "name"), Lit("done"))>>),
             result |-> Obj([id |-> OptGet(entity, "id"), name |-> OptGet(entity, "name")]),
             rateLimit |-> Get(response, "rateLimit")])

catalogHandlerTry(h, args, outcome) ==
    LET shape == catalogShape(h)
        parsed == ZodObjectParse(shape, args)
    IN  IF ~parsed.ok THEN Throw(ZodError(parsed.issues))
        ELSE IF outcome = NotYet
          THEN Await(Request(catalogMethod(h), parsed.data, <<>>,
                             Pick(parsed.data, {},
                                  ShapeKeys(shape) \ {"apiKey", "token"})))
        ELSE IF outcome.kind = "rejected" THEN Throw(outcome.error)
        ELSE LET response == outcome.value
             IN  Reading(response, Reading(Get(response, "data"),
                     Return(SuccessEnvelope(catalogResult(h, response)))))

catalogHandler(h, args, outcome) ==
    Catch(catalogDescription(h), catalogHandlerTry(h, args, outcome))


(***************************************************************************)
(* The tool descriptors (the name of each; src/tools/*.ts) and the handler *)
(* each module exports beside its descriptor.                              *)
(***************************************************************************)
Tool(name, handler) == [name |-> name, handler |-> handler]

createBoardTool == Tool("trello_create_board", "handleCreateBoard")
listBoardsTool == Tool("list_boards", "handleListBoards")
getBoardDetailsTool == Tool("get_board_details", "handleGetBoardDetails")
getListsTool == Tool("get_lists", "handleGetLists")
trelloCreateChecklistTool == Tool("trello_create_checklist", "handleTrelloCreateChecklist")
trelloGetChecklistTool == Tool("trello_get_checklist", "handleTrelloGetChecklist")
trelloUpdateChecklistTool == Tool("trello_update_checklist", "handleTrelloUpdateChecklist")
trelloDeleteChecklistTool == Tool("trello_delete_checklist", "handleTrelloDeleteChecklist")
trelloCreateChecklistItemTool ==
    Tool("trello_create_checklist_item", "handleTrelloCreateChecklistItem")
trelloUpdateChecklistItemTool ==
    Tool("trello_update_checklist_item", "handleTrelloUpdateChecklistItem")
trelloDeleteChecklistItemTool ==
    Tool("trello_delete_checklist_item", "handleTrelloDeleteChecklistItem")

\* The descriptors of the modules that are imported by server.ts only.
trelloSearchTool == Tool("trello_search", "handleTrelloSearch")
trelloGetUserBoardsTool == Tool("trello_get_user_boards", "handleTrelloGetUserBoards")
getCardTool == Tool("get_card", "handleGetCard")
createCardTool == Tool("create_card", "handleCreateCard")
updateCardTool == Tool("update_card", "handleUpdateCard")
moveCardTool == Tool("move_card", "handleMoveCard")
trelloAddCommentTool == Tool("trello_add_comment", "handleTrelloAddComment")
trelloGetListCardsTool == Tool("trello_get_list_cards", "handleTrelloGetListCards")
trelloCreateListTool == Tool("trello_create_list", "handleTrelloCreateList")
trelloGetMemberTool == Tool("trello_get_member", "handleTrelloGetMember")
trelloGetBoardCardsTool == Tool("trello_get_board_cards", "handleTrelloGetBoardCards")
trelloGetCardActionsTool == Tool("trello_get_card_actions", "handleTrelloGetCardActions")
trelloGetCardAttachmentsTool == Tool("trello_get_card_attachments", "handleTrelloGetCardAttachments")
trelloGetCardChecklistsTool == Tool("trello_get_card_checklists", "handleTrelloGetCardChecklists")
trelloGetBoardMembersTool == Tool("trello_get_board_members", "handleTrelloGetBoardMembers")
trelloGetBoardLabelsTool == Tool("trello_get_board_labels", "handleTrelloGetBoardLabels")

\* inputSchema.properties[field].enum of the descriptor named `name`
inputSchemaEnum(name, field) ==
    CASE name = "trello_create_board" /\ field = "prefs_permissionLevel" ->
           {<<"o", "r", "g">>, <<"p", "r", "i", "v", "a", "t", "e">>,
            <<"p", "u", "b", "l", "i", "c">>,
            <<"e", "n", "t", "e", "r", "p", "r", "i", "s", "e">>}
      [] name \in {"list_boards", "get_lists"} /\ field = "filter" ->
           {<<"a", "l", "l">>, <<"o", "p", "e", "n">>, <<"c", "l", "o", "s", "e", "d">>}
      [] name = "trello_update_checklist_item" /\ field = "state" ->
           {<<"c", "o", "m", "p", "l", "e", "t", "e">>,
            <<"i", "n", "c", "o", "m", "p", "l", "e", "t", "e">>}
      [] OTHER -> {}

\* A tools array from which the create-board descriptor was left out.
ListedToolsWithoutCreateBoard ==
    <<trelloSearchTool, trelloGetUserBoardsTool, getBoardDetailsTool, getCardTool,
      createCardTool, updateCardTool, moveCardTool, trelloAddCommentTool,
      trelloGetListCardsTool, trelloCreateListTool, listBoardsTool, getListsTool,
      trelloGetMemberTool, trelloGetBoardCardsTool, trelloGetCardActionsTool,
      trelloGetCardAttachmentsTool, trelloGetCardChecklistsTool,
      trelloGetBoardMembersTool, trelloGetBoardLabelsTool, trelloCreateChecklistTool,
      trelloGetChecklistTool, trelloUpdateChecklistTool, trelloDeleteChecklistTool,
      trelloCreateChecklistItemTool, trelloUpdateChecklistItemTool,
      trelloDeleteChecklistItemTool>>

\* A tools array with the board descriptors gathered in one place.
ListedToolsRegrouped ==
    <<trelloSearchTool, trelloGetUserBoardsTool, getBoardDetailsTool, getCardTool,
      createCardTool, updateCardTool, moveCardTool, trelloAddCommentTool,
      trelloGetListCardsTool, trelloCreateListTool, listBoardsTool, getListsTool,
      createBoardTool, trelloGetMemberTool, trelloGetBoardCardsTool,
      trelloGetCardActionsTool, trelloGetCardAttachmentsTool,
      trelloGetCardChecklistsTool, trelloGetBoardMembersTool, trelloGetBoardLabelsTool,
      trelloCreateChecklistTool, trelloGetChecklistTool, trelloUpdateChecklistTool,
      trelloDeleteChecklistTool, trelloCreateChecklistItemTool,
      trelloUpdateChecklistItemTool, trelloDeleteChecklistItemTool>>

(***************************************************************************)
(* src/server.ts: createMCPServer                                          *)
(***************************************************************************)
\* The tools array of the ListToolsRequestSchema handler, in its order.
ListedTools ==
    <<trelloSearchTool, trelloGetUserBoardsTool, getBoardDetailsTool, getCardTool,
      createCardTool,
      updateCardTool, moveCardTool, trelloAddCommentTool, trelloGetListCardsTool,
      trelloCreateListTool, createBoardTool,
      listBoardsTool, getListsTool,
      trelloGetMemberTool,
      trelloGetBoardCardsTool, trelloGetCardActionsTool, trelloGetCardAttachmentsTool,
      trelloGetCardChecklistsTool, trelloGetBoardMembersTool, trelloGetBoardLabelsTool,
      trelloCreateChecklistTool, trelloGetChecklistTool, trelloUpdateChecklistTool,
      trelloDeleteChecklistTool, trelloCreateChecklistItemTool,
      trelloUpdateChecklistItemTool, trelloDeleteChecklistItemTool>>

\* The switch of the CallToolRequestSchema handler: each case label with
\* the handler its case calls, in the order of the cases.
SwitchCases ==
    <<
      <<"trello_search", "handleTrelloSearch">>,
      <<"trello_get_user_boards", "handleTrelloGetUserBoards">>,
      <<"trello_create_board", "handleCreateBoard">>,
      <<"get_board_details", "handleGetBoardDetails">>,
      <<"get_card", "handleGetCard">>,
      <<"create_card", "handleCreateCard">>,
      <<"update_card", "handleUpdateCard">>,
      <<"move_card", "handleMoveCard">>,
      <<"trello_add_comment", "handleTrelloAddComment">>,
      <<"trello_get_list_cards", "handleTrelloGetListCards">>,
      <<"trello_create_list", "handleTrelloCreateList">>,
      <<"list_boards", "handleListBoards">>,
      <<"get_lists", "handleGetLists">>,
      <<"trello_get_member", "handleTrelloGetMember">>,
      <<"trello_get_board_cards", "handleTrelloGetBoardCards">>,
      <<"trello_get_card_actions", "handleTrelloGetCardActions">>,
      <<"trello_get_card_attachments", "handleTrelloGetCardAttachments">>,
      <<"trello_get_card_checklists", "handleTrelloGetCardChecklists">>,
      <<"trello_get_board_members", "handleTrelloGetBoardMembers">>,
      <<"trello_get_board_labels", "handleTrelloGetBoardLabels">>,
      <<"trello_create_checklist", "handleTrelloCreateChecklist">>,
      <<"trello_get_checklist", "handleTrelloGetChecklist">>,
      <<"trello_update_checklist", "handleTrelloUpdateChecklist">>,
      <<"trello_delete_checklist", "handleTrelloDeleteChecklist">>,
      <<"trello_create_checklist_item", "handleTrelloCreateChecklistItem">>,
      <<"trello_update_checklist_item", "handleTrelloUpdateChecklistItem">>,
      <<"trello_delete_checklist_item", "handleTrelloDeleteChecklistItem">>
    >>

CaseLabels == {SwitchCases[i][1] : i \in 1..Len(SwitchCases)}

NoHandler == "default"

\* A switch whose create-board case calls the board-details handler.
DispatchMisrouted(name) ==
    IF name = "trello_create_board" THEN "handleGetBoardDetails"
    ELSE IF name \in CaseLabels
      THEN SwitchCases[CHOOSE i \in 1..Len(SwitchCases) : SwitchCases[i][1] = name][2]
    ELSE NoHandler

\* A switch that falls back to a handler instead of throwing.
DispatchWithFallback(name) ==
    IF name \in CaseLabels
      THEN SwitchCases[CHOOSE i \in 1..Len(SwitchCases) : SwitchCases[i][1] = name][2]
    ELSE "handleTrelloSearch"

\* switch (name): the handler the first case labelled `name` calls; the
\* default case calls none.
Dispatch(name) ==
    IF name \in CaseLabels
      THEN LET first == CHOOSE i \in 1..Len(SwitchCases) :
                          /\ SwitchCases[i][1] = name
                          /\ \A j \in 1..(i - 1) : SwitchCases[j][1] # name
           IN  SwitchCases[first][2]
    ELSE NoHandler

(***************************************************************************)
(* index.ts, the standalone shell: the same descriptors and cases as       *)
(* server.ts, each case calling its handler with argsWithCredentials.      *)
(***************************************************************************)
\* The tools array of the standalone shell's ListToolsRequestSchema handler.
StandaloneListedTools ==
    <<trelloSearchTool, trelloGetUserBoardsTool, getBoardDetailsTool, getCardTool,
      createCardTool,
      updateCardTool, moveCardTool, trelloAddCommentTool, trelloGetListCardsTool,
      trelloCreateListTool, createBoardTool,
      listBoardsTool, getListsTool,
      trelloGetMemberTool,
      trelloGetBoardCardsTool, trelloGetCardActionsTool, trelloGetCardAttachmentsTool,
      trelloGetCardChecklistsTool, trelloGetBoardMembersTool, trelloGetBoardLabelsTool,
      trelloCreateChecklistTool, trelloGetChecklistTool, trelloUpdateChecklistTool,
      trelloDeleteChecklistTool, trelloCreateChecklistItemTool,
      trelloUpdateChecklistItemTool, trelloDeleteChecklistItemTool>>

\* The switch of the standalone shell: case '<name>':
\* result = await handleXyz(argsWithCredentials); break;
StandaloneSwitchCases ==
    <<
      <<"trello_search", "handleTrelloSearch">>,
      <<"trello_get_user_boards", "handleTrelloGetUserBoards">>,
      <<"trello_create_board", "handleCreateBoard">>,
      <<"get_board_details", "handleGetBoardDetails">>,
      <<"get_card", "handleGetCard">>,
      <<"create_card", "handleCreateCard">>,
      <<"update_card", "handleUpdateCard">>,
      <<"move_card", "handleMoveCard">>,
      <<"trello_add_comment", "handleTrelloAddComment">>,
      <<"trello_get_list_cards", "handleTrelloGetListCards">>,
      <<"trello_create_list", "handleTrelloCreateList">>,
      <<"list_boards", "handleListBoards">>,
      <<"get_lists", "handleGetLists">>,
      <<"trello_get_member", "handleTrelloGetMember">>,
      <<"trello_get_board_cards", "handleTrelloGetBoardCards">>,
      <<"trello_get_card_actions", "handleTrelloGetCardActions">>,
      <<"trello_get_card_attachments", "handleTrelloGetCardAttachments">>,
      <<"trello_get_card_checklists", "handleTrelloGetCardChecklists">>,
      <<"trello_get_board_members", "handleTrelloGetBoardMembers">>,
      <<"trello_get_board_labels", "handleTrelloGetBoardLabels">>,
      <<"trello_create_checklist", "handleTrelloCreateChecklist">>,
      <<"trello_get_checklist", "handleTrelloGetChecklist">>,
      <<"trello_update_checklist", "handleTrelloUpdateChecklist">>,
      <<"trello_delete_checklist", "handleTrelloDeleteChecklist">>,
      <<"trello_create_checklist_item", "handleTrelloCreateChecklistItem">>,
      <<"trello_update_checklist_item", "handleTrelloUpdateChecklistItem">>,
      <<"trello_delete_checklist_item", "handleTrelloDeleteChecklistItem">>
    >>

StandaloneCaseLabels == {StandaloneSwitchCases[i][1] : i \in 1..Len(StandaloneSwitchCases)}

StandaloneDispatch(name) ==
    IF name \in StandaloneCaseLabels
      THEN LET first == CHOOSE i \in 1..Len(StandaloneSwitchCases) :
                          /\ StandaloneSwitchCases[i][1] = name
                          /\ \A j \in 1..(i - 1) : StandaloneSwitchCases[j][1] # name
           IN  StandaloneSwitchCases[first][2]
    ELSE NoHandler

\* The credentials the standalone shell holds for the whole process.
KeyE == <<"k", "e", "y", "-", "e", "n", "v">>
TokenE == <<"t", "o", "k", "-", "e", "n", "v">>
credentials == [apiKey |-> Str(KeyE), token |-> Str(TokenE)]

\* An injection that keeps the credentials the caller supplied.
argsWithCredentialsKeepingCallers(args) ==
    LET own == IF args.t = "object" THEN args.v ELSE <<>>
    IN  Obj([k \in DOMAIN own \cup {"apiKey", "token"} |->
               IF k \in DOMAIN own /\ own[k] # Undefined THEN own[k] ELSE credentials[k]])

\* { ...args, apiKey, token }: the caller's fields, the two credentials
\* replaced by the configured ones.
argsWithCredentials(args) ==
    LET own == IF args.t = "object" THEN args.v ELSE <<>>
    IN  Obj([k \in DOMAIN own \cup {"apiKey", "token"} |->
               IF k \in {"apiKey", "token"} THEN credentials[k] ELSE own[k]])

\* The handler a shell's switch calls for a name.
ShellDispatch(shell, name) ==
    IF shell = "standalone" THEN StandaloneDispatch(name) ELSE Dispatch(name)



(***************************************************************************)
(* The callers' requests: tool names and argument maps.                    *)
(***************************************************************************)
IdA ==
    <<"5", "f", "1", "a", "2", "b", "3", "c", "4", "d", "5", "e",
      "6", "f", "7", "a", "8", "b", "9", "c", "0", "d", "1", "e">>
DateA ==
    <<"2", "0", "2", "6", "-", "0", "1", "-", "0", "2", "T",
      "0", "3", ":", "0", "4", ":", "0", "5", "Z">>
TextA == <<"T", "a", "s", "k", " ", "A">>

WithChar(str, i, c) == [str EXCEPT ![i] = c]

\* Strings that are nearly identifiers: an upper-case hex digit or a
\* character that is no hex digit at either end, one character short, one
\* character long, and "bad-id".
NearIds ==
    {WithChar(IdA, i, c) : i \in {1, IdLen}, c \in {"F", "g"}}
    \cup {SubSeq(IdA, 1, IdLen - 1), Append(IdA, "0"), <<"b", "a", "d", "-", "i", "d">>}

\* The shape against which the arguments of a handler are validated.
HandlerShape(h) ==
    CASE h = "handleCreateBoard" -> createBoardShape
      [] h = "handleListBoards" -> listBoardsShape
      [] h = "handleGetBoardDetails" -> getBoardShape
      [] h = "handleGetLists" -> getBoardListsShape
      [] h = "handleTrelloCreateChecklist" -> createChecklistShape
      [] h = "handleTrelloGetChecklist" -> getChecklistShape
      [] h = "handleTrelloUpdateChecklist" -> updateChecklistShape
      [] h = "handleTrelloDeleteChecklist" -> deleteChecklistShape
      [] h = "handleTrelloCreateChecklistItem" -> createChecklistItemShape
      [] h = "handleTrelloUpdateChecklistItem" -> updateChecklistItemShape
      [] h = "handleTrelloDeleteChecklistItem" -> deleteChecklistItemShape
      [] h = NoHandler -> <<>>
      [] OTHER -> catalogShape(h)

\* A value of the kind the field is declared to hold.
Nominal(sch) ==
    IF sch.type = "boolean" THEN Bool(TRUE)
    ELSE IF sch.type = "enum" THEN Str(CHOOSE e \in sch.values : TRUE)
    ELSE IF sch.type = "union" THEN Str(top)
    ELSE IF sch.regex THEN Str(IdA)
    ELSE IF sch.datetime THEN Str(DateA)
    ELSE Str(TextA)

\* The values tried for a field: of its kind and not.
Candidates(sch) ==
    {Undefined, Null, Str(<<>>), Str(TextA), Num(7)}
    \cup (IF sch.type = "boolean" THEN {Bool(TRUE), Bool(FALSE)} ELSE {})
    \cup (IF sch.type = "enum" THEN {Str(e) : e \in sch.values} ELSE {})
    \cup (IF sch.type = "union"
            THEN {Str(top), Str(bottom)} \cup {Num(n) : n \in (0 - 1)..MaxPos}
            ELSE {})
    \cup (IF sch.regex THEN {Str(IdA)} \cup {Str(x) : x \in NearIds} ELSE {})
    \cup (IF sch.datetime THEN {Str(DateA), Str(WithChar(DateA, 11, " "))} ELSE {})

IsRequired(sch) == ~sch.optional /\ sch.default = Undefined
OptionalKeys(shape) == {shape[i].key : i \in {j \in 1..Len(shape) : ~IsRequired(shape[j].sch)}}
RequiredKeys(shape) == ShapeKeys(shape) \ OptionalKeys(shape)

\* The argument map holding the required fields and the optional fields
\* `present`, each with a value of its kind.
Baseline(shape, present) ==
    [k \in ShapeKeys(shape) |->
       IF k \in RequiredKeys(shape) \cup present
         THEN Nominal(shape[KeyIndex(shape, k)].sch) ELSE Undefined]

\* The maps that depart from one of `maps` in at most n fields.
RECURSIVE Overridden(_, _, _)
Overridden(shape, maps, n) ==
    IF n = 0 THEN maps
    ELSE LET fewer == Overridden(shape, maps, n - 1)
         IN  fewer \cup UNION {UNION {{[m EXCEPT ![shape[i].key] = c] :
                                         c \in Candidates(shape[i].sch)} :
                                      i \in 1..Len(shape)} : m \in fewer}

\* Every subset of the optional fields with the required ones, the map
\* with no field set, the map with -1 in every field, and the departures
\* from the smallest and the largest of the first ones.
ArgumentMaps(shape) ==
    {Baseline(shape, present) : present \in SUBSET OptionalKeys(shape)}
    \cup {[k \in ShapeKeys(shape) |-> Undefined], [k \in ShapeKeys(shape) |-> Num(0 - 1)]}
    \cup Overridden(shape, {Baseline(shape, {}), Baseline(shape, OptionalKeys(shape))},
                    MaxOverrides)

\* A field no inputSchema and no validator declares.
Undeclared == "undeclared"
\* The map m with the undeclared field set as well.
WithUndeclared(m) ==
    [k \in DOMAIN m \cup {Undeclared} |-> IF k = Undeclared THEN Str(TextA) ELSE m[k]]

\* request.params.arguments: an argument map, the smallest or the largest
\* map with an undeclared field beside it, or no object at all
RawArguments(name) ==
    LET shape == HandlerShape(Dispatch(name))
    IN  {RawObject(m) : m \in ArgumentMaps(shape)}
        \cup {RawObject(WithUndeclared(Baseline(shape, present))) :
                 present \in {{}, OptionalKeys(shape)}}
        \cup {Undefined, Null, Str(TextA)}

\* What a caller of the standalone server sends: an argument map, with
\* credentials of its own or without, or no arguments.
StandaloneArguments(name) ==
    {RawObject(m) : m \in ArgumentMaps(HandlerShape(Dispatch(name)))} \cup {Undefined}

ListedNames == {ListedTools[i].name : i \in 1..Len(ListedTools)}
UnknownNames == {"trello_delete_board", "TRELLO_SEARCH", ""}
\* request.params.name
RequestedNames == ListedNames \cup CaseLabels \cup UnknownNames

(***************************************************************************)
(* The collaborator: what `await client.method(...)` may come back with.   *)
(***************************************************************************)
RateLimitA == Obj([limit |-> Num(300), remaining |-> Num(299)])
BoardA ==
    Obj([id |-> Str(IdA), name |-> Str(TextA), desc |-> Str(<<>>),
         shortUrl |-> Str(<<"u">>), closed |-> Bool(FALSE),
         dateLastActivity |-> Str(DateA),
         prefs |-> Obj([permissionLevel |-> Str(<<"o", "r", "g">>)])])
ListA == Obj([id |-> Str(IdA), name |-> Str(TextA), pos |-> Num(1),
              closed |-> Bool(FALSE), subscribed |-> Bool(FALSE)])
CardA == Obj([id |-> Str(IdA), name |-> Str(TextA), desc |-> Str(<<>>),
              shortUrl |-> Str(<<"u">>), idList |-> Str(IdA), pos |-> Num(1),
              due |-> Null, closed |-> Bool(FALSE)])
BoardWithDetails ==
    Obj([k \in DOMAIN BoardA.v \cup {"lists", "cards"} |->
           IF k = "lists" THEN Arr(<<ListA>>)
           ELSE IF k = "cards" THEN Arr(<<CardA>>)
           ELSE BoardA.v[k]])
CheckItemA ==
    Obj([id |-> Str(IdA), name |-> Str(TextA),
         state |-> Str(<<"c", "o", "m", "p", "l", "e", "t", "e">>), pos |-> Num(1),
         due |-> Null, idMember |-> Null, idChecklist |-> Str(IdA)])
ChecklistA ==
    Obj([id |-> Str(IdA), name |-> Str(TextA), pos |-> Num(1), idCard |-> Str(IdA),
         idBoard |-> Str(IdA), checkItems |-> Arr(<<CheckItemA>>)])

\* The data a method of the client answers with when it succeeds.
DataOf(method) ==
    CASE method = "createBoard" -> {BoardA}
      [] method = "getBoard" -> {BoardA, BoardWithDetails}
      [] method = "getMyBoards" -> {Arr(<<BoardA>>)}
      [] method = "getBoardLists" -> {Arr(<<ListA>>)}
      [] method \in {"createChecklist", "getChecklist", "updateChecklist"} -> {ChecklistA}
      [] method \in {"createChecklistItem", "updateChecklistItem"} -> {CheckItemA}
      [] OTHER -> {Obj([id |-> Str(IdA), name |-> Str(TextA)])}

Resolved(value) == [kind |-> "resolved", value |-> value, error |-> None]
Rejected(error) == [kind |-> "rejected", value |-> None, error |-> error]
FailureMessage == Lit("Trello API error: 401 unauthorized")

\* A response with its data, a response whose data is missing, a thrown
\* Error, a thrown value that is no Error.
Outcomes(method) ==
    {Resolved(Obj([data |-> d, rateLimit |-> RateLimitA])) : d \in DataOf(method)}
    \cup {Resolved(Obj([rateLimit |-> RateLimitA])),
          Rejected(Error(FailureMessage)),
          Rejected(Thrown(Str(<<"b", "o", "o", "m">>)))}


(***************************************************************************)
(* The state machine.                                                      *)
(*   pc: idle -> request -> (await -> settled ->) done | fault -> idle     *)
(***************************************************************************)
\* The description each handler's catch block puts in its error text.
Description(h) ==
    CASE
         h = "handleCreateBoard" -> "creating board"
      [] h = "handleListBoards" -> "listing boards"
      [] h = "handleGetBoardDetails" -> "getting board details"
      [] h = "handleGetLists" -> "getting lists"
      [] h = "handleTrelloCreateChecklist" -> "creating checklist"
      [] h = "handleTrelloGetChecklist" -> "getting checklist"
      [] h = "handleTrelloUpdateChecklist" -> "updating checklist"
      [] h = "handleTrelloDeleteChecklist" -> "deleting checklist"
      [] h = "handleTrelloCreateChecklistItem" -> "creating check item"
      [] h = "handleTrelloUpdateChecklistItem" -> "updating check item"
      [] h = "handleTrelloDeleteChecklistItem" -> "deleting check item"
      [] OTHER -> catalogDescription(h)

Idle ==
    [pc |-> "idle", shell |-> "", req |-> "", name |-> "", params |-> Undefined,
     args |-> Undefined, handler |-> "", calls |-> <<>>, outcome |-> NotYet,
     result |-> None]

OneAtATime == {1}

Init == inv = [s \in OneAtATime |-> Idle]

\* A caller sends tools/list to the server of createMCPServer.
ListToolsRequest(s) ==
    /\ inv[s].pc = "idle"
    /\ inv' = [inv EXCEPT ![s] = [Idle EXCEPT !.pc = "request", !.shell = "embedding",
                                              !.req = "tools/list"]]

\* A caller sends tools/list to the standalone server.
StandaloneListToolsRequest(s) ==
    /\ inv[s].pc = "idle"
    /\ inv' = [inv EXCEPT ![s] = [Idle EXCEPT !.pc = "request", !.shell = "standalone",
                                              !.req = "tools/list"]]

\* A createMCPServer whose call-tool handler hands its handlers
\* argsWithCredentials as the standalone server does.
CallToolRequestInjecting(s) ==
    /\ inv[s].pc = "idle"
    /\ \E name \in RequestedNames :
         \E args \in RawArguments(name) :
           inv' = [inv EXCEPT ![s] = [Idle EXCEPT !.pc = "request", !.shell = "embedding",
                                                  !.req = "tools/call", !.name = name,
                                                  !.params = args,
                                                  !.args = argsWithCredentials(args)]]

\* A caller sends tools/call with a name and arguments to the server of
\* createMCPServer: const { name, arguments: args } = request.params
CallToolRequest(s) ==
    /\ inv[s].pc = "idle"
    /\ \E name \in RequestedNames :
         \E args \in RawArguments(name) :
           inv' = [inv EXCEPT ![s] = [Idle EXCEPT !.pc = "request", !.shell = "embedding",
                                                  !.req = "tools/call", !.name = name,
                                                  !.params = args, !.args = args]]

\* A caller sends tools/call to the standalone server, which hands its
\* handlers argsWithCredentials.
StandaloneCallToolRequest(s) ==
    /\ inv[s].pc = "idle"
    /\ \E name \in RequestedNames :
         \E args \in StandaloneArguments(name) :
           inv' = [inv EXCEPT ![s] = [Idle EXCEPT !.pc = "request", !.shell = "standalone",
                                                  !.req = "tools/call", !.name = name,
                                                  !.params = args,
                                                  !.args = argsWithCredentials(args)]]

\* The ListToolsRequestSchema handler.
ListTools(s) ==
    /\ inv[s].pc = "request"
    /\ inv[s].shell = "embedding"
    /\ inv[s].req = "tools/list"
    /\ inv' = [inv EXCEPT ![s] = [@ EXCEPT !.pc = "done",
                                           !.result = [tools |-> ListedTools]]]

\* The ListToolsRequestSchema handler of the standalone server.
StandaloneListTools(s) ==
    /\ inv[s].pc = "request"
    /\ inv[s].shell = "standalone"
    /\ inv[s].req = "tools/list"
    /\ inv' = [inv EXCEPT ![s] = [@ EXCEPT !.pc = "done",
                                           !.result = [tools |-> StandaloneListedTools]]]

\* A name the standalone switch has no case for: the unknown-operation
\* fault leaves the dispatcher.
StandaloneCallToolDefault(s) ==
    /\ inv[s].pc = "request"
    /\ inv[s].shell = "standalone"
    /\ inv[s].req = "tools/call"
    /\ StandaloneDispatch(inv[s].name) = NoHandler
    /\ inv' = [inv EXCEPT ![s] =
                 [@ EXCEPT !.pc = "fault",
                           !.result = Error(Tpl(<<Lit("Unknown tool: "), Lit(inv[s].name)>>))]]

\* The default case of the switch: throw new Error(`Unknown tool: ${name}`).
CallToolDefault(s) ==
    /\ inv[s].pc = "request"
    /\ inv[s].shell = "embedding"
    /\ inv[s].req = "tools/call"
    /\ Dispatch(inv[s].name) = NoHandler
    /\ inv' = [inv EXCEPT ![s] =
                 [@ EXCEPT !.pc = "fault",
                           !.result = Error(Tpl(<<Lit("Unknown tool: "), Lit(inv[s].name)>>))]]

\* case '<name>': return await handler(args), for the case that calls h:
\* the request is there to be served, or the collaborator has answered the
\* call h is suspended at.
Serving(s, h) ==
    /\ inv[s].req = "tools/call"
    /\ inv[s].pc \in {"request", "settled"}
    /\ ShellDispatch(inv[s].shell, inv[s].name) = h

\* A handler that calls the client once more when its call was rejected.
RanRetrying(s, h, completion) ==
    IF inv[s].pc = "settled" /\ inv[s].outcome.kind = "rejected" /\ Len(inv[s].calls) < 2
      THEN [inv[s] EXCEPT !.pc = "await", !.handler = h, !.outcome = NotYet,
                          !.calls = Append(@, @[1])]
    ELSE IF completion.kind = "await"
      THEN [inv[s] EXCEPT !.pc = "await", !.handler = h,
                          !.calls = Append(@, completion.call)]
    ELSE IF completion.kind = "return"
      THEN [inv[s] EXCEPT !.pc = "done", !.handler = h, !.result = completion.value]
    ELSE [inv[s] EXCEPT !.pc = "fault", !.handler = h, !.result = completion.error]

\* The invocation after h ran, from its start to its await or from its
\* await to its end, and ended as `completion`; what h throws leaves the
\* CallToolRequestSchema handler.
Ran(s, h, completion) ==
    IF completion.kind = "await"
      THEN [inv[s] EXCEPT !.pc = "await", !.handler = h,
                          !.calls = Append(@, completion.call)]
    ELSE IF completion.kind = "return"
      THEN [inv[s] EXCEPT !.pc = "done", !.handler = h, !.result = completion.value]
    ELSE [inv[s] EXCEPT !.pc = "fault", !.handler = h, !.result = completion.error]

\* A handleCreateBoard whose client is kept in a variable of the module:
\* while another invocation is in flight, the client that one built is used.
handleCreateBoardSharingClient(s) ==
    LET others == {t \in DOMAIN inv : t # s /\ inv[t].calls # <<>>}
        first == CHOOSE t \in others : \A u \in others : t <= u
        args == IF others = {} \/ inv[s].args.t # "object" THEN inv[s].args
                ELSE RawObject([k \in DOMAIN inv[s].args.v |->
                                  IF k = "apiKey" THEN inv[first].calls[1].apiKey
                                  ELSE IF k = "token" THEN inv[first].calls[1].token
                                  ELSE inv[s].args.v[k]])
    IN  /\ Serving(s, "handleCreateBoard")
        /\ inv' = [inv EXCEPT ![s] =
                     Ran(s, "handleCreateBoard",
                         Catch(Description("handleCreateBoard"),
                               handleCreateBoardTry(args, inv[s].outcome)))]

handleCreateBoard(s) ==
    /\ Serving(s, "handleCreateBoard")
    /\ inv' = [inv EXCEPT ![s] =
                 Ran(s, "handleCreateBoard",
                     Catch(Description("handleCreateBoard"),
                           handleCreateBoardTry(inv[s].args, inv[s].outcome)))]

handleListBoards(s) ==
    /\ Serving(s, "handleListBoards")
    /\ inv' = [inv EXCEPT ![s] =
                 Ran(s, "handleListBoards",
                     Catch(Description("handleListBoards"),
                           handleListBoardsTry(inv[s].args, inv[s].outcome)))]

handleGetBoardDetails(s) ==
    /\ Serving(s, "handleGetBoardDetails")
    /\ inv' = [inv EXCEPT ![s] =
                 Ran(s, "handleGetBoardDetails",
                     Catch(Description("handleGetBoardDetails"),
                           handleGetBoardDetailsTry(inv[s].args, inv[s].outcome)))]

handleGetLists(s) ==
    /\ Serving(s, "handleGetLists")
    /\ inv' = [inv EXCEPT ![s] =
                 Ran(s, "handleGetLists",
                     Catch(Description("handleGetLists"),
                           handleGetListsTry(inv[s].args, inv[s].outcome)))]

handleTrelloCreateChecklist(s) ==
    /\ Serving(s, "handleTrelloCreateChecklist")
    /\ inv' = [inv EXCEPT ![s] =
                 Ran(s, "handleTrelloCreateChecklist",
                     Catch(Description("handleTrelloCreateChecklist"),
                           handleTrelloCreateChecklistTry(inv[s].args, inv[s].outcome)))]

handleTrelloGetChecklist(s) ==
    /\ Serving(s, "handleTrelloGetChecklist")
    /\ inv' = [inv EXCEPT ![s] =
                 Ran(s, "handleTrelloGetChecklist",
                     Catch(Description("handleTrelloGetChecklist"),
                           handleTrelloGetChecklistTry(inv[s].args, inv[s].outcome)))]

handleTrelloUpdateChecklist(s) ==
    /\ Serving(s, "handleTrelloUpdateChecklist")
    /\ inv' = [inv EXCEPT ![s] =
                 Ran(s, "handleTrelloUpdateChecklist",
                     Catch(Description("handleTrelloUpdateChecklist"),
                           handleTrelloUpdateChecklistTry(inv[s].args, inv[s].outcome)))]

handleTrelloDeleteChecklist(s) ==
    /\ Serving(s, "handleTrelloDeleteChecklist")
    /\ inv' = [inv EXCEPT ![s] =
                 Ran(s, "handleTrelloDeleteChecklist",
                     Catch(Description("handleTrelloDeleteChecklist"),
                           handleTrelloDeleteChecklistTry(inv[s].args, inv[s].outcome)))]

handleTrelloCreateChecklistItem(s) ==
    /\ Serving(s, "handleTrelloCreateChecklistItem")
    /\ inv' = [inv EXCEPT ![s] =
                 Ran(s, "handleTrelloCreateChecklistItem",
                     Catch(Description("handleTrelloCreateChecklistItem"),
                           handleTrelloCreateChecklistItemTry(inv[s].args, inv[s].outcome)))]

handleTrelloUpdateChecklistItem(s) ==
    /\ Serving(s, "handleTrelloUpdateChecklistItem")
    /\ inv' = [inv EXCEPT ![s] =
                 Ran(s, "handleTrelloUpdateChecklistItem",
                     Catch(Description("handleTrelloUpdateChecklistItem"),
                           handleTrelloUpdateChecklistItemTry(inv[s].args, inv[s].outcome)))]

handleTrelloDeleteChecklistItem(s) ==
    /\ Serving(s, "handleTrelloDeleteChecklistItem")
    /\ inv' = [inv EXCEPT ![s] =
                 Ran(s, "handleTrelloDeleteChecklistItem",
                     Catch(Description("handleTrelloDeleteChecklistItem"),
                           handleTrelloDeleteChecklistItemTry(inv[s].args, inv[s].outcome)))]

handleTrelloSearch(s) ==
    /\ Serving(s, "handleTrelloSearch")
    /\ inv' = [inv EXCEPT ![s] =
                 Ran(s, "handleTrelloSearch",
                     catalogHandler("handleTrelloSearch", inv[s].args, inv[s].outcome))]

handleTrelloGetUserBoards(s) ==
    /\ Serving(s, "handleTrelloGetUserBoards")
    /\ inv' = [inv EXCEPT ![s] =
                 Ran(s, "handleTrelloGetUserBoards",
                     catalogHandler("handleTrelloGetUserBoards", inv[s].args, inv[s].outcome))]

handleGetCard(s) ==
    /\ Serving(s, "handleGetCard")
    /\ inv' = [inv EXCEPT ![s] =
                 Ran(s, "handleGetCard",
                     catalogHandler("handleGetCard", inv[s].args, inv[s].outcome))]

handleCreateCard(s) ==
    /\ Serving(s, "handleCreateCard")
    /\ inv' = [inv EXCEPT ![s] =
                 Ran(s, "handleCreateCard",
                     catalogHandler("handleCreateCard", inv[s].args, inv[s].outcome))]

handleUpdateCard(s) ==
    /\ Serving(s, "handleUpdateCard")
    /\ inv' = [inv EXCEPT ![s] =
                 Ran(s, "handleUpdateCard",
                     catalogHandler("handleUpdateCard", inv[s].args, inv[s].outcome))]

handleMoveCard(s) ==
    /\ Serving(s, "handleMoveCard")
    /\ inv' = [inv EXCEPT ![s] =
                 Ran(s, "handleMoveCard",
                     catalogHandler("handleMoveCard", inv[s].args, inv[s].outcome))]

handleTrelloAddComment(s) ==
    /\ Serving(s, "handleTrelloAddComment")
    /\ inv' = [inv EXCEPT ![s] =
                 Ran(s, "handleTrelloAddComment",
                     catalogHandler("handleTrelloAddComment", inv[s].args, inv[s].outcome))]

handleTrelloGetListCards(s) ==
    /\ Serving(s, "handleTrelloGetListCards")
    /\ inv' = [inv EXCEPT ![s] =
                 Ran(s, "handleTrelloGetListCards",
                     catalogHandler("handleTrelloGetListCards", inv[s].args, inv[s].outcome))]

handleTrelloCreateList(s) ==
    /\ Serving(s, "handleTrelloCreateList")
    /\ inv' = [inv EXCEPT ![s] =
                 Ran(s, "handleTrelloCreateList",
                     catalogHandler("handleTrelloCreateList", inv[s].args, inv[s].outcome))]

handleTrelloGetMember(s) ==
    /\ Serving(s, "handleTrelloGetMember")
    /\ inv' = [inv EXCEPT ![s] =
                 Ran(s, "handleTrelloGetMember",
                     catalogHandler("handleTrelloGetMember", inv[s].args, inv[s].outcome))]

handleTrelloGetBoardCards(s) ==
    /\ Serving(s, "handleTrelloGetBoardCards")
    /\ inv' = [inv EXCEPT ![s] =
                 Ran(s, "handleTrelloGetBoardCards",
                     catalogHandler("handleTrelloGetBoardCards", inv[s].args, inv[s].outcome))]

handleTrelloGetCardActions(s) ==
    /\ Serving(s, "handleTrelloGetCardActions")
    /\ inv' = [inv EXCEPT ![s] =
                 Ran(s, "handleTrelloGetCardActions",
                     catalogHandler("handleTrelloGetCardActions", inv[s].args, inv[s].outcome))]

handleTrelloGetCardAttachments(s) ==
    /\ Serving(s, "handleTrelloGetCardAttachments")
    /\ inv' = [inv EXCEPT ![s] =
                 Ran(s, "handleTrelloGetCardAttachments",
                     catalogHandler("handleTrelloGetCardAttachments", inv[s].args, inv[s].outcome))]

handleTrelloGetCardChecklists(s) ==
    /\ Serving(s, "handleTrelloGetCardChecklists")
    /\ inv' = [inv EXCEPT ![s] =
                 Ran(s, "handleTrelloGetCardChecklists",
                     catalogHandler("handleTrelloGetCardChecklists", inv[s].args, inv[s].outcome))]

handleTrelloGetBoardMembers(s) ==
    /\ Serving(s, "handleTrelloGetBoardMembers")
    /\ inv' = [inv EXCEPT ![s] =
                 Ran(s, "handleTrelloGetBoardMembers",
                     catalogHandler("handleTrelloGetBoardMembers", inv[s].args, inv[s].outcome))]

handleTrelloGetBoardLabels(s) ==
    /\ Serving(s, "handleTrelloGetBoardLabels")
    /\ inv' = [inv EXCEPT ![s] =
                 Ran(s, "handleTrelloGetBoardLabels",
                     catalogHandler("handleTrelloGetBoardLabels", inv[s].args, inv[s].outcome))]

\* The collaborator answers the call the invocation is suspended at.
CollaboratorSettles(s) ==
    /\ inv[s].pc = "await"
    /\ \E outcome \in Outcomes(inv[s].calls[Len(inv[s].calls)].method) :
         inv' = [inv EXCEPT ![s] = [@ EXCEPT !.pc = "settled", !.outcome = outcome]]

\* The response (or the protocol error) has gone to the caller.
Respond(s) ==
    /\ inv[s].pc \in {"done", "fault"}
    /\ inv' = [inv EXCEPT ![s] = Idle]

\* What the server and its surroundings may do for the invocation in slot s.
Step(s) ==
      \/ ListToolsRequest(s)
      \/ StandaloneListToolsRequest(s)
      \/ CallToolRequest(s)
      \/ StandaloneCallToolRequest(s)
      \/ ListTools(s)
      \/ StandaloneListTools(s)
      \/ CallToolDefault(s)
      \/ StandaloneCallToolDefault(s)
      \/ handleCreateBoard(s)
      \/ handleListBoards(s)
      \/ handleGetBoardDetails(s)
      \/ handleGetLists(s)
      \/ handleTrelloCreateChecklist(s)
      \/ handleTrelloGetChecklist(s)
      \/ handleTrelloUpdateChecklist(s)
      \/ handleTrelloDeleteChecklist(s)
      \/ handleTrelloCreateChecklistItem(s)
      \/ handleTrelloUpdateChecklistItem(s)
      \/ handleTrelloDeleteChecklistItem(s)
      \/ handleTrelloSearch(s)
      \/ handleTrelloGetUserBoards(s)
      \/ handleGetCard(s)
      \/ handleCreateCard(s)
      \/ handleUpdateCard(s)
      \/ handleMoveCard(s)
      \/ handleTrelloAddComment(s)
      \/ handleTrelloGetListCards(s)
      \/ handleTrelloCreateList(s)
      \/ handleTrelloGetMember(s)
      \/ handleTrelloGetBoardCards(s)
      \/ handleTrelloGetCardActions(s)
      \/ handleTrelloGetCardAttachments(s)
      \/ handleTrelloGetCardChecklists(s)
      \/ handleTrelloGetBoardMembers(s)
      \/ handleTrelloGetBoardLabels(s)
      \/ CollaboratorSettles(s)
      \/ Respond(s)

Next == \E s \in OneAtATime : Step(s)

Spec == Init /\ [][Next]_vars

(***************************************************************************)
(* Several invocations in flight. The server handles a request in an async *)
(* callback: while one invocation is suspended at its await, the event loop *)
(* starts or resumes another.                                              *)
(***************************************************************************)
InFlight == {1, 2}

\* The credentials of two callers.
Callers ==
    {[apiKey |-> Str(<<"k", "e", "y", "-", "1">>), token |-> Str(<<"t", "o", "k", "-", "1">>)],
     [apiKey |-> Str(<<"k", "e", "y", "-", "2">>), token |-> Str(<<"t", "o", "k", "-", "2">>)]}

InterleavedNames == {"trello_create_board", "trello_update_checklist_item"}

\* The smallest and the largest valid argument map of a tool, with the
\* credentials of either caller.
InterleavedArguments(name) ==
    LET shape == HandlerShape(Dispatch(name))
    IN  {RawObject([k \in ShapeKeys(shape) |->
                      IF k \in DOMAIN c THEN c[k] ELSE Baseline(shape, present)[k]]) :
           c \in Callers, present \in {{}, OptionalKeys(shape)}}

InitInterleaved == inv = [s \in InFlight |-> Idle]

\* A caller sends tools/call while other invocations may be in flight.
InterleavedCallToolRequest(s) ==
    /\ inv[s].pc = "idle"
    /\ \E name \in InterleavedNames :
         \E args \in InterleavedArguments(name) :
           inv' = [inv EXCEPT ![s] = [Idle EXCEPT !.pc = "request", !.shell = "embedding",
                                                  !.req = "tools/call", !.name = name,
                                                  !.params = args, !.args = args]]

StepInterleaved(s) ==
      \/ InterleavedCallToolRequest(s)
      \/ handleCreateBoard(s)
      \/ handleTrelloUpdateChecklistItem(s)
      \/ CollaboratorSettles(s)
      \/ Respond(s)

NextInterleaved == \E s \in InFlight : StepInterleaved(s)

SpecInterleaved == InitInterleaved /\ [][NextInterleaved]_vars


(***************************************************************************)
(* The claims.                                                             *)
(***************************************************************************)
\* The invocation in slot s is a tool call that has been dispatched.
Dispatched(s) == inv[s].req = "tools/call" /\ inv[s].pc \notin {"idle", "request"}
\* The invocation in slot s has returned a response envelope.
Returned(s) == inv[s].req = "tools/call" /\ inv[s].pc = "done"
Registered(s) == inv[s].name \in ListedNames
\* The descriptor listed under a name.
Listed(name) == ListedTools[CHOOSE i \in 1..Len(ListedTools) : ListedTools[i].name = name]
\* What validation makes of the arguments of the invocation in slot s.
Validation(s) == ZodObjectParse(HandlerShape(Listed(inv[s].name).handler), inv[s].args)
IsEnvelope(r) == "content" \in DOMAIN r /\ DOMAIN r \subseteq {"content", "isError"}
MarkedError(r) == "isError" \in DOMAIN r /\ r.isError = TRUE
\* The invocation ended with an error envelope without calling the collaborator.
RejectedWithoutCall(s) ==
    /\ inv[s].pc = "done"
    /\ inv[s].calls = <<>>
    /\ IsEnvelope(inv[s].result)
    /\ MarkedError(inv[s].result)

\* C1: the names listed by tools/list are pairwise distinct; every listed
\* name has exactly one case in the switch of tools/call and no case has a
\* label that is not listed; a call of a listed name runs the handler that
\* is exported beside the descriptor of that name, and a call of any other
\* name runs no handler.
C1_ListedNamesAndCasesCorrespond ==
    /\ \A n \in ListedNames :
         Cardinality({i \in 1..Len(SwitchCases) : SwitchCases[i][1] = n}) = 1
    /\ CaseLabels \subseteq ListedNames
    /\ \A s \in DOMAIN inv :
         /\ (inv[s].req = "tools/list" /\ inv[s].pc = "done") =>
              LET tools == inv[s].result.tools
              IN  \A i, j \in 1..Len(tools) : tools[i].name = tools[j].name => i = j
         /\ Dispatched(s) =>
              IF Registered(s)
                THEN inv[s].handler = Listed(inv[s].name).handler
                ELSE inv[s].handler = ""

C1_Witness ==
    \E s \in DOMAIN inv :
      /\ Dispatched(s)
      /\ inv[s].name = "trello_create_board"
      /\ inv[s].handler = "handleCreateBoard"
      /\ inv[s].pc = "await"

\* C2: a call of a name that is not in the registry ends with the thrown
\* Error "Unknown tool: <name>" leaving the call-tool handler: no envelope
\* is returned, no handler has run and no collaborator call was made.
C2_UnknownNameFaults ==
    \A s \in DOMAIN inv :
      (Dispatched(s) /\ ~Registered(s)) =>
        /\ inv[s].pc = "fault"
        /\ inv[s].handler = ""
        /\ inv[s].calls = <<>>
        /\ inv[s].outcome = NotYet
        /\ ~IsEnvelope(inv[s].result)
        /\ inv[s].result.class = "Error"
        /\ inv[s].result.message = Tpl(<<Lit("Unknown tool: "), Lit(inv[s].name)>>)

C2_Witness ==
    \E s \in DOMAIN inv :
      /\ inv[s].pc = "fault"
      /\ inv[s].name = "trello_delete_board"
      /\ inv[s].args # Undefined

\* The collaborator answered without data and the handler reads the data.
MissingDataRead(s) ==
    /\ inv[s].outcome.kind = "resolved"
    /\ Nullish(Get(inv[s].outcome.value, "data"))
    /\ inv[s].handler \notin {"handleTrelloDeleteChecklist", "handleTrelloDeleteChecklistItem"}

\* C3: a call of a registered name never ends with a fault leaving the
\* handler, whatever the arguments and whatever the collaborator's outcome;
\* it ends with an envelope, and after a validation failure, a rejected
\* collaborator call or a response whose data is missing where it is read,
\* the envelope is marked isError: true.
C3_HandlersNeverThrow ==
    \A s \in DOMAIN inv :
      (inv[s].req = "tools/call" /\ Registered(s)) =>
        /\ inv[s].pc # "fault"
        /\ inv[s].pc = "done" =>
             /\ IsEnvelope(inv[s].result)
             /\ (\/ ~Validation(s).ok
                 \/ inv[s].outcome.kind = "rejected"
                 \/ MissingDataRead(s)) => MarkedError(inv[s].result)

C3_Witness ==
    \E s \in DOMAIN inv :
      /\ Returned(s)
      /\ inv[s].name = "trello_update_checklist_item"
      /\ inv[s].outcome.kind = "rejected"
      /\ inv[s].outcome.error.class = "value"
      /\ MarkedError(inv[s].result)


\* C4: no collaborator call is made unless the arguments validated: an
\* invocation whose arguments fail validation never reaches its await and
\* ends with an isError envelope and no collaborator call.
C4_ValidationShortCircuits ==
    \A s \in DOMAIN inv :
      (Dispatched(s) /\ Registered(s)) =>
        /\ inv[s].calls # <<>> => Validation(s).ok
        /\ ~Validation(s).ok => RejectedWithoutCall(s) /\ inv[s].outcome = NotYet

C4_Witness ==
    \E s \in DOMAIN inv :
      /\ Returned(s)
      /\ inv[s].name = "trello_delete_checklist"
      /\ Field(inv[s].args, "checklistId") = Str(<<"b", "a", "d", "-", "i", "d">>)
      /\ Field(inv[s].args, "apiKey") = Str(TextA)
      /\ RejectedWithoutCall(s)

\* The collaborator answered with a response that holds its data.
CollaboratorSucceeded(s) ==
    /\ inv[s].outcome.kind = "resolved"
    /\ ~Nullish(Get(inv[s].outcome.value, "data"))
\* The collaborator failed with an Error that carries a message.
CollaboratorFailed(s) ==
    /\ inv[s].outcome.kind = "rejected"
    /\ inv[s].outcome.error.instanceofError

\* C5: every envelope has exactly one content entry, of type text, and is
\* either a success body (serialized structured data, isError absent) or an
\* error text marked isError: true, never both; after a collaborator
\* success the envelope is a success body with a summary field; after a
\* collaborator failure it is marked isError: true and its text reads
\* "Error <description>: <message>" with the description of the operation
\* and the collaborator's message.
C5_UniformEnvelope ==
    \A s \in DOMAIN inv :
      (Returned(s) /\ Registered(s)) =>
        LET envelope == inv[s].result
            text == envelope.content[1].text
        IN  /\ IsEnvelope(envelope)
            /\ Len(envelope.content) = 1
            /\ envelope.content[1].type = "text"
            /\ IF "isError" \in DOMAIN envelope
                 THEN envelope.isError = TRUE /\ text.t = "text"
                 ELSE text.t = "json"
            /\ CollaboratorSucceeded(s) =>
                 /\ "isError" \notin DOMAIN envelope
                 /\ text.t = "json"
                 /\ text.v.t = "object"
                 /\ "summary" \in DOMAIN text.v.v
            /\ CollaboratorFailed(s) =>
                 /\ MarkedError(envelope)
                 /\ text = Tpl(<<Lit("Error "), Lit(Description(inv[s].handler)), Lit(": "),
                                 inv[s].outcome.error.message>>)

C5_Witness ==
    \E s \in DOMAIN inv :
      /\ Returned(s)
      /\ inv[s].name = "trello_create_checklist"
      /\ CollaboratorFailed(s)
      /\ inv[s].result.content[1].text.v[4] = FailureMessage

C5_WitnessSuccess ==
    \E s \in DOMAIN inv :
      /\ Returned(s)
      /\ inv[s].name = "get_lists"
      /\ CollaboratorSucceeded(s)
      /\ "isError" \notin DOMAIN inv[s].result


\* The handler of the invocation in slot s called the collaborator.
Accepted(s) == inv[s].calls # <<>>
\* Everything handed to the collaborator method: its identifier arguments
\* and the keys of its data object.
Sent(call) ==
    [k \in DOMAIN call.ids \cup DOMAIN call.data |->
       IF k \in DOMAIN call.ids THEN call.ids[k] ELSE call.data[k]]
\* The arguments of slot s with field k set to x.
ArgsWith(s, k, x) ==
    Obj([j \in DOMAIN inv[s].args.v \cup {k} |-> IF j = k THEN x ELSE inv[s].args.v[j]])
\* The other fields of the invocation in slot s are valid: with x in
\* field k its arguments validate.
ValidWith(s, k, x) ==
    ZodObjectParse(HandlerShape(Listed(inv[s].name).handler), ArgsWith(s, k, x)).ok
Credentials == {"apiKey", "token"}
AbsencePreserving ==
    {"trello_create_board", "trello_create_checklist", "trello_update_checklist",
     "trello_create_checklist_item", "trello_update_checklist_item"}

\* C6: for trello_create_board, trello_create_checklist,
\* trello_update_checklist, trello_create_checklist_item and
\* trello_update_checklist_item, the keys handed to the collaborator are
\* exactly the mandatory business fields and the optional fields the caller
\* set, each with the caller's value; an omitted optional field is no key of
\* the request, whether as undefined, null, empty or a default.
C6_AbsencePreserved ==
    \A s \in DOMAIN inv :
      (Dispatched(s) /\ inv[s].name \in AbsencePreserving /\ Accepted(s)) =>
        LET shape == HandlerShape(Listed(inv[s].name).handler)
            sent == Sent(inv[s].calls[1])
            set == {k \in OptionalKeys(shape) : Field(inv[s].args, k) # Undefined}
        IN  /\ DOMAIN sent = (RequiredKeys(shape) \ Credentials) \cup set
            /\ \A k \in DOMAIN sent : sent[k] = Field(inv[s].args, k)

C6_Witness ==
    \E s \in DOMAIN inv :
      /\ inv[s].name = "trello_create_board"
      /\ Accepted(s)
      /\ DOMAIN inv[s].calls[1].data = {"name", "defaultLists", "prefs_background"}
      /\ Field(inv[s].args, "desc") = Undefined

C6_WitnessUpdate ==
    \E s \in DOMAIN inv :
      /\ inv[s].name = "trello_update_checklist_item"
      /\ Accepted(s)
      /\ DOMAIN inv[s].calls[1].data = {"name", "due"}

\* C7: trello_update_checklist_item forwards an explicit null for due or
\* idMember as null and leaves an omitted due or idMember out of the data;
\* null in any other field of the update, idChecklist among them, and null
\* in any field of trello_create_checklist_item, due and idMember among
\* them, is rejected without a collaborator call.
C7_NullClearsOmissionKeeps ==
    \A s \in DOMAIN inv :
      (Dispatched(s) /\ inv[s].args.t = "object") =>
        /\ inv[s].name = "trello_update_checklist_item" =>
             /\ \A k \in {"due", "idMember"} :
                  /\ (Field(inv[s].args, k) = Null /\ ValidWith(s, k, Undefined)) =>
                       /\ Accepted(s)
                       /\ k \in DOMAIN inv[s].calls[1].data
                       /\ inv[s].calls[1].data[k] = Null
                  /\ (Field(inv[s].args, k) = Undefined /\ Accepted(s)) =>
                       k \notin DOMAIN inv[s].calls[1].data
             /\ \A k \in ShapeKeys(updateChecklistItemShape) \ {"due", "idMember"} :
                  Field(inv[s].args, k) = Null => RejectedWithoutCall(s)
        /\ inv[s].name = "trello_create_checklist_item" =>
             \A k \in ShapeKeys(createChecklistItemShape) :
               Field(inv[s].args, k) = Null => RejectedWithoutCall(s)

C7_Witness ==
    \E s \in DOMAIN inv :
      /\ inv[s].name = "trello_update_checklist_item"
      /\ Field(inv[s].args, "due") = Null
      /\ Field(inv[s].args, "idMember") = Undefined
      /\ Accepted(s)
      /\ inv[s].calls[1].data.due = Null
      /\ "idMember" \notin DOMAIN inv[s].calls[1].data

C7_WitnessRejected ==
    \E s \in DOMAIN inv :
      /\ inv[s].name = "trello_create_checklist_item"
      /\ Field(inv[s].args, "idMember") = Null
      /\ RejectedWithoutCall(s)

\* The fields that hold an identifier of the remote system.
IdentifierFields ==
    {"idOrganization", "boardId", "listId", "cardId", "checklistId", "checkItemId",
     "idCard", "idChecklistSource", "idMember", "idChecklist"}
\* A string of exactly 24 characters, each of a-f or 0-9.
IsLowerHex24(x) ==
    /\ x.t = "string"
    /\ Len(x.v) = 24
    /\ \A i \in 1..Len(x.v) :
         x.v[i] \in {"a", "b", "c", "d", "e", "f"} \cup Digits

C8_WitnessAccepted ==
    \E s \in DOMAIN inv :
      /\ inv[s].name = "trello_get_checklist"
      /\ Field(inv[s].args, "checklistId") = Str(IdA)
      /\ Accepted(s)

IsNonEmptyString(x) == x.t = "string" /\ Len(x.v) >= 1

\* C9: an invocation of a registered operation whose apiKey or token is
\* missing, is no string or is the empty string ends with an isError
\* envelope and no collaborator call, whatever its other fields are.
C9_CredentialsRequired ==
    \A s \in DOMAIN inv :
      (Dispatched(s) /\ Registered(s)) =>
        ((\E k \in Credentials : ~IsNonEmptyString(Field(inv[s].args, k)))
           => RejectedWithoutCall(s))

C9_Witness ==
    \E s \in DOMAIN inv :
      /\ inv[s].name = "trello_get_checklist"
      /\ Field(inv[s].args, "apiKey") = Str(<<>>)
      /\ IsNonEmptyString(Field(inv[s].args, "token"))
      /\ Field(inv[s].args, "checklistId") = Str(IdA)
      /\ RejectedWithoutCall(s)

C9_WitnessMissingToken ==
    \E s \in DOMAIN inv :
      /\ inv[s].name = "trello_create_board"
      /\ inv[s].args.t = "object"
      /\ Field(inv[s].args, "token") = Undefined
      /\ IsNonEmptyString(Field(inv[s].args, "apiKey"))
      /\ RejectedWithoutCall(s)

PositionOperations ==
    {"trello_create_checklist", "trello_update_checklist",
     "trello_create_checklist_item", "trello_update_checklist_item"}
\* "top", "bottom" or a number that is at least 0
IsPosition(x) ==
    \/ x.t = "string" /\ x.v \in {<<"t", "o", "p">>, <<"b", "o", "t", "t", "o", "m">>}
    \/ x.t = "number" /\ x.v >= 0

C10_WitnessToken ==
    \E s \in DOMAIN inv :
      /\ inv[s].name = "trello_create_checklist_item"
      /\ Field(inv[s].args, "pos") = Str(bottom)
      /\ Accepted(s)
      /\ inv[s].calls[1].data.pos = Str(bottom)

C10_WitnessNegative ==
    \E s \in DOMAIN inv :
      /\ inv[s].name = "trello_create_checklist"
      /\ Field(inv[s].args, "pos") = Num(0 - 1)
      /\ RejectedWithoutCall(s)


\* C11: the descriptors listed by the standalone shell are the descriptors
\* listed by the embedding shell, neither list holding one the other lacks,
\* and a name is dispatched to the same handler (or to none) by both; what a
\* list request returns and the handler a call runs do not depend on the
\* shell that served it.
C11_CatalogParity ==
    /\ {ListedTools[i] : i \in 1..Len(ListedTools)}
         = {StandaloneListedTools[i] : i \in 1..Len(StandaloneListedTools)}
    /\ \A name \in RequestedNames \cup CaseLabels \cup StandaloneCaseLabels :
         Dispatch(name) = StandaloneDispatch(name)
    /\ \A s \in DOMAIN inv :
         /\ (inv[s].req = "tools/list" /\ inv[s].pc = "done") =>
              /\ {inv[s].result.tools[i] : i \in 1..Len(inv[s].result.tools)}
                   = {ListedTools[i] : i \in 1..Len(ListedTools)}
              /\ {inv[s].result.tools[i] : i \in 1..Len(inv[s].result.tools)}
                   = {StandaloneListedTools[i] : i \in 1..Len(StandaloneListedTools)}
         /\ (Dispatched(s) /\ inv[s].handler # "") =>
              /\ inv[s].handler = Dispatch(inv[s].name)
              /\ inv[s].handler = StandaloneDispatch(inv[s].name)

C11_Witness ==
    \E s \in DOMAIN inv :
      /\ inv[s].shell = "standalone"
      /\ inv[s].req = "tools/list"
      /\ inv[s].pc = "done"
      /\ \E i \in 1..Len(inv[s].result.tools) : inv[s].result.tools[i] = createBoardTool

C11_WitnessCall ==
    \E s \in DOMAIN inv :
      /\ inv[s].shell = "standalone"
      /\ inv[s].name = "trello_delete_checklist_item"
      /\ inv[s].handler = "handleTrelloDeleteChecklistItem"
      /\ inv[s].pc = "done"

\* C12: the standalone shell hands the handler the caller's argument map
\* with apiKey and token set to the configured credentials, whatever the
\* caller supplied for them, and every other field as the caller gave it;
\* the embedding shell hands the handler the caller's arguments as they
\* are.  The client is constructed with the credentials the handler was
\* handed.
C12_CredentialInjection ==
    \A s \in DOMAIN inv :
      (inv[s].req = "tools/call" /\ inv[s].pc # "idle") =>
        /\ inv[s].shell = "embedding" => inv[s].args = inv[s].params
        /\ inv[s].shell = "standalone" =>
             LET own == IF inv[s].params.t = "object" THEN inv[s].params.v ELSE <<>>
             IN  /\ inv[s].args.t = "object"
                 /\ DOMAIN inv[s].args.v = DOMAIN own \cup Credentials
                 /\ \A k \in Credentials : inv[s].args.v[k] = credentials[k]
                 /\ \A k \in DOMAIN own \ Credentials : inv[s].args.v[k] = own[k]
        /\ Accepted(s) =>
             /\ inv[s].calls[1].apiKey
                  = (IF inv[s].shell = "standalone"
                       THEN credentials.apiKey ELSE Field(inv[s].params, "apiKey"))
             /\ inv[s].calls[1].token
                  = (IF inv[s].shell = "standalone"
                       THEN credentials.token ELSE Field(inv[s].params, "token"))

C12_Witness ==
    \E s \in DOMAIN inv :
      /\ inv[s].shell = "standalone"
      /\ inv[s].name = "trello_update_checklist"
      /\ Field(inv[s].params, "apiKey") = Str(TextA)
      /\ Field(inv[s].params, "pos") = Str(top)
      /\ Accepted(s)
      /\ inv[s].calls[1].apiKey = Str(KeyE)
      /\ inv[s].calls[1].data.pos = Str(top)

C12_WitnessEmbedding ==
    \E s \in DOMAIN inv :
      /\ inv[s].shell = "embedding"
      /\ inv[s].name = "trello_update_checklist"
      /\ Field(inv[s].params, "token") = Undefined
      /\ RejectedWithoutCall(s)

\* The names of the operations in the order they are declared.
DeclaredOrder ==
    <<"trello_search", "trello_get_user_boards", "get_board_details", "get_card",
      "create_card",
      "update_card", "move_card", "trello_add_comment", "trello_get_list_cards",
      "trello_create_list", "trello_create_board",
      "list_boards", "get_lists",
      "trello_get_member",
      "trello_get_board_cards", "trello_get_card_actions", "trello_get_card_attachments",
      "trello_get_card_checklists", "trello_get_board_members", "trello_get_board_labels",
      "trello_create_checklist", "trello_get_checklist", "trello_update_checklist",
      "trello_delete_checklist", "trello_create_checklist_item",
      "trello_update_checklist_item", "trello_delete_checklist_item">>

\* C13: every answer to a list request holds the descriptors in the
\* declared order, phase by phase, in whatever state the request finds the
\* server; serving a request, answered with an envelope or with a fault,
\* leaves nothing behind that a later list request could depend on.
C13_ListOrderStable ==
    \A s \in DOMAIN inv :
      /\ (inv[s].req = "tools/list" /\ inv[s].pc = "done") =>
           /\ Len(inv[s].result.tools) = Len(DeclaredOrder)
           /\ \A i \in 1..Len(DeclaredOrder) : inv[s].result.tools[i].name = DeclaredOrder[i]
      /\ inv[s].pc = "idle" => inv[s] = Idle

C13_Witness ==
    \E s \in DOMAIN inv :
      /\ inv[s].shell = "embedding"
      /\ inv[s].req = "tools/list"
      /\ inv[s].pc = "done"
      /\ inv[s].result.tools[1].name = "trello_search"
      /\ inv[s].result.tools[11].name = "trello_create_board"
      /\ inv[s].result.tools[27].name = "trello_delete_checklist_item"


DeletionOperations == {"trello_delete_checklist", "trello_delete_checklist_item"}
\* The identifier fields a deletion is called with.
DeletedIds(name) ==
    IF name = "trello_delete_checklist" THEN {"checklistId"}
    ELSE {"checklistId", "checkItemId"}
\* Fields under which a checklist or a check item carries its contents.
FormerContents ==
    {"id", "name", "pos", "idCard", "idBoard", "idChecklist", "idMember", "state", "due",
     "checkItems", "checklist", "checkItem", "data"}
\* The object serialized into the text of the envelope of slot s.
ResultOf(s) == inv[s].result.content[1].text.v.v
\* The invocation in slot s ended with a success envelope.
Succeeded(s) ==
    /\ Returned(s)
    /\ IsEnvelope(inv[s].result)
    /\ ~MarkedError(inv[s].result)

\* C14: a deletion whose collaborator call resolved returns a success
\* envelope whose object holds the identifiers the caller supplied and
\* deleted: true and no field of the deleted entity's contents; an envelope
\* that says deleted: true is returned only after the one delete call
\* resolved; when the call failed the envelope is an error envelope without
\* a deleted flag.
C14_DeletionConfirmed ==
    \A s \in DOMAIN inv :
      (Returned(s) /\ inv[s].name \in DeletionOperations) =>
        /\ inv[s].outcome.kind = "resolved" =>
             /\ Succeeded(s)
             /\ \A k \in DeletedIds(inv[s].name) :
                  k \in DOMAIN ResultOf(s) /\ ResultOf(s)[k] = Field(inv[s].params, k)
             /\ "deleted" \in DOMAIN ResultOf(s) /\ ResultOf(s).deleted = Bool(TRUE)
             /\ DOMAIN ResultOf(s) \cap FormerContents = {}
        /\ Succeeded(s) =>
             /\ inv[s].outcome.kind = "resolved"
             /\ Len(inv[s].calls) = 1
             /\ inv[s].calls[1].method
                  = (IF inv[s].name = "trello_delete_checklist"
                       THEN "deleteChecklist" ELSE "deleteChecklistItem")
        /\ inv[s].outcome.kind # "resolved" =>
             /\ MarkedError(inv[s].result)
             /\ inv[s].result.content[1].text.t = "text"

C14_Witness ==
    \E s \in DOMAIN inv :
      /\ Succeeded(s)
      /\ inv[s].name = "trello_delete_checklist_item"
      /\ ResultOf(s).checkItemId = Str(IdA)
      /\ ResultOf(s).deleted = Bool(TRUE)

C14_WitnessFailed ==
    \E s \in DOMAIN inv :
      /\ Returned(s)
      /\ inv[s].name = "trello_delete_checklist"
      /\ inv[s].outcome.kind = "rejected"
      /\ MarkedError(inv[s].result)


UpdateItemFields == {"state", "name", "pos", "due", "idMember", "idChecklist"}

\* C15: an invocation of trello_update_checklist_item makes at most one
\* collaborator call over its whole course, and one that succeeded made
\* exactly one: a call of the update method for the caller's cardId and
\* checkItemId whose data holds every field the caller supplied, with the
\* caller's value, idChecklist and the member and due date among them.
C15_SingleCombinedUpdate ==
    \A s \in DOMAIN inv :
      inv[s].name = "trello_update_checklist_item" =>
        /\ Len(inv[s].calls) <= 1
        /\ Accepted(s) =>
             LET call == inv[s].calls[1]
                 supplied == {k \in UpdateItemFields : Field(inv[s].params, k) # Undefined}
             IN  /\ call.method = "updateChecklistItem"
                 /\ call.ids = [cardId |-> Field(inv[s].params, "cardId"),
                                checkItemId |-> Field(inv[s].params, "checkItemId")]
                 /\ DOMAIN call.data = supplied
                 /\ \A k \in supplied : call.data[k] = Field(inv[s].params, k)
        /\ Succeeded(s) => Len(inv[s].calls) = 1

C15_Witness ==
    \E s \in DOMAIN inv :
      /\ Succeeded(s)
      /\ inv[s].name = "trello_update_checklist_item"
      /\ Len(inv[s].calls) = 1
      /\ DOMAIN inv[s].calls[1].data = UpdateItemFields
      /\ inv[s].calls[1].data.idChecklist = Str(IdA)


\* C16: for every operation, the object serialized into a success envelope
\* holds, as rateLimit, the rateLimit of the collaborator's response,
\* unmodified.
C16_RateLimitPassedThrough ==
    \A s \in DOMAIN inv :
      (Succeeded(s) /\ Registered(s)) =>
        /\ "rateLimit" \in DOMAIN ResultOf(s)
        /\ ResultOf(s).rateLimit = Get(inv[s].outcome.value, "rateLimit")

\* The operations other than the two deletions pass the rateLimit through.
RateLimitPassedThroughUnlessDeletion ==
    \A s \in DOMAIN inv :
      (Succeeded(s) /\ Registered(s) /\ inv[s].name \notin DeletionOperations) =>
        /\ "rateLimit" \in DOMAIN ResultOf(s)
        /\ ResultOf(s).rateLimit = Get(inv[s].outcome.value, "rateLimit")


\* C17: get_board_details asked with includeDetails omitted or false calls
\* the collaborator without the expansion and returns a board that has
\* neither lists nor cards; asked with includeDetails true it calls the
\* collaborator with the expansion and returns a board that has both, each
\* a sequence, the empty one when the response carries none.
C17_DetailsOnlyOnRequest ==
    \A s \in DOMAIN inv :
      (inv[s].name = "get_board_details" /\ Accepted(s)) =>
        LET flag == Field(inv[s].params, "includeDetails")
            asked == inv[s].calls[1].ids.includeDetails
        IN  /\ flag \in {Undefined, Bool(FALSE), Bool(TRUE)}
            /\ asked = Bool(TRUE) <=> flag = Bool(TRUE)
            /\ asked \in {Undefined, Bool(FALSE), Bool(TRUE)}
            /\ Succeeded(s) =>
                 LET board == ResultOf(s).board.v
                     data == Get(inv[s].outcome.value, "data")
                 IN  IF flag = Bool(TRUE)
                       THEN /\ {"lists", "cards"} \subseteq DOMAIN board
                            /\ board.lists.t = "array" /\ board.cards.t = "array"
                            /\ Nullish(Get(data, "lists")) => board.lists = Arr(<<>>)
                            /\ Nullish(Get(data, "cards")) => board.cards = Arr(<<>>)
                            /\ ~Nullish(Get(data, "lists")) =>
                                 Len(board.lists.v) = Len(Get(data, "lists").v)
                       ELSE {"lists", "cards"} \cap DOMAIN board = {}

C17_Witness ==
    \E s \in DOMAIN inv :
      /\ Succeeded(s)
      /\ inv[s].name = "get_board_details"
      /\ Field(inv[s].params, "includeDetails") = Bool(TRUE)
      /\ Nullish(Get(Get(inv[s].outcome.value, "data"), "lists"))
      /\ ResultOf(s).board.v.lists = Arr(<<>>)

C17_WitnessOmitted ==
    \E s \in DOMAIN inv :
      /\ Succeeded(s)
      /\ inv[s].name = "get_board_details"
      /\ Field(inv[s].params, "includeDetails") = Undefined
      /\ ~Nullish(Get(Get(inv[s].outcome.value, "data"), "lists"))
      /\ "lists" \notin DOMAIN ResultOf(s).board.v

ListingOperations == {"list_boards", "get_lists"}

\* C18: list_boards and get_lists accept the filters open, closed and all;
\* with the filter omitted the collaborator is asked for the open entities
\* and the summary says open; a filter the caller supplied is handed to
\* the collaborator as supplied and is the one the summary says.
C18_FilterDefaultsToOpen ==
    \A s \in DOMAIN inv :
      (Dispatched(s) /\ inv[s].name \in ListingOperations /\ inv[s].args.t = "object") =>
        LET given == Field(inv[s].params, "filter")
            filter == IF given = Undefined THEN Str(<<"o", "p", "e", "n">>) ELSE given
        IN  /\ (given \in {Undefined, Str(<<"o", "p", "e", "n">>),
                           Str(<<"c", "l", "o", "s", "e", "d">>), Str(<<"a", "l", "l">>)}
                  /\ ValidWith(s, "filter", Undefined)) => Accepted(s)
            /\ Accepted(s) => inv[s].calls[1].ids.filter = filter
            /\ Succeeded(s) => ResultOf(s).summary.v[4] = filter

C18_Witness ==
    \E s \in DOMAIN inv :
      /\ Succeeded(s)
      /\ inv[s].name = "list_boards"
      /\ Field(inv[s].params, "filter") = Undefined
      /\ inv[s].calls[1].ids.filter = Str(open)
      /\ ResultOf(s).summary.v[4] = Str(open)

C18_WitnessSupplied ==
    \E s \in DOMAIN inv :
      /\ Succeeded(s)
      /\ inv[s].name = "get_lists"
      /\ Field(inv[s].params, "filter") = Str(<<"c", "l", "o", "s", "e", "d">>)
      /\ inv[s].calls[1].ids.filter = Str(<<"c", "l", "o", "s", "e", "d">>)

\* The enumerated fields of the operations.
EnumeratedFields ==
    {<<"trello_create_board", "prefs_permissionLevel">>,
     <<"list_boards", "filter">>, <<"get_lists", "filter">>,
     <<"trello_update_checklist_item", "state">>}

\* C19: a value given for prefs_permissionLevel of trello_create_board,
\* for state of trello_update_checklist_item or for the filter of
\* list_boards and get_lists is accepted, the other fields being valid,
\* exactly when it is one of the strings the operation's input schema
\* declares for the field (org, private, public, enterprise; complete,
\* incomplete; all, open, closed); any other value ends the invocation with
\* an error envelope and no collaborator call.
C19_EnumerationsClosed ==
    \A s \in DOMAIN inv :
      (Dispatched(s) /\ inv[s].args.t = "object") =>
        \A e \in EnumeratedFields :
          inv[s].name = e[1] =>
            LET x == Field(inv[s].params, e[2])
                declared == x.t = "string" /\ x.v \in inputSchemaEnum(e[1], e[2])
            IN  x # Undefined =>
                  /\ ValidWith(s, e[2], Undefined) => (Accepted(s) <=> declared)
                  /\ ~declared => RejectedWithoutCall(s)

C19_Witness ==
    \E s \in DOMAIN inv :
      /\ inv[s].name = "trello_create_board"
      /\ Field(inv[s].params, "prefs_permissionLevel") = Str(TextA)
      /\ Field(inv[s].params, "name") = Str(TextA)
      /\ RejectedWithoutCall(s)

C19_WitnessAccepted ==
    \E s \in DOMAIN inv :
      /\ inv[s].name = "trello_update_checklist_item"
      /\ Field(inv[s].params, "state") = Str(<<"i", "n", "c", "o", "m", "p", "l", "e", "t", "e">>)
      /\ Accepted(s)
      /\ inv[s].calls[1].data.state = Field(inv[s].params, "state")


\* The fields of the arguments of slot s that their schema rejects.
Violated(s) ==
    LET shape == HandlerShape(Listed(inv[s].name).handler)
    IN  {k \in ShapeKeys(shape) :
           ParseValue(shape[KeyIndex(shape, k)].sch, Field(inv[s].args, k)) # <<>>}
\* The pieces of the validation message in the error text of slot s.
ValidationMessage(s) == inv[s].result.content[1].text.v[4].v

\* C20: when validation rejects an argument map, the envelope has one text
\* and that text names every field the validation rejected, each followed
\* by a reason, two or more of them when two or more fields are invalid.
C20_EveryViolationNamed ==
    \A s \in DOMAIN inv :
      (Returned(s) /\ Registered(s) /\ inv[s].args.t = "object" /\ Violated(s) # {}) =>
        /\ MarkedError(inv[s].result)
        /\ Len(inv[s].result.content) = 1
        /\ inv[s].result.content[1].text.v[4].t = "text"
        /\ \A k \in Violated(s) :
             \E i \in 1..(Len(ValidationMessage(s)) - 2) :
               /\ ValidationMessage(s)[i] = Lit(k)
               /\ ValidationMessage(s)[i + 1] = Lit(": ")
               /\ ValidationMessage(s)[i + 2].t = "literal"
               /\ ValidationMessage(s)[i + 2].v # ""

C20_Witness ==
    \E s \in DOMAIN inv :
      /\ Returned(s)
      /\ inv[s].name = "trello_create_checklist"
      /\ inv[s].shell = "embedding"
      /\ Violated(s) = {"apiKey", "token", "idCard", "name", "pos", "idChecklistSource"}
      /\ MarkedError(inv[s].result)

C20_WitnessTwo ==
    \E s \in DOMAIN inv :
      /\ Returned(s)
      /\ inv[s].name = "trello_create_board"
      /\ Cardinality(Violated(s)) = 3
      /\ Field(inv[s].params, "name") = Undefined
      /\ MarkedError(inv[s].result)


\* C21: an invocation whose arguments validate makes exactly one
\* collaborator call, made when the handler starts, in whatever state an
\* earlier invocation left the server: none is answered without a call, and
\* a call that failed is not made again, the invocation ending with the
\* error envelope of that one failure.
C21_ExactlyOneCall ==
    \A s \in DOMAIN inv :
      (Dispatched(s) /\ Registered(s)) =>
        /\ Len(inv[s].calls) <= 1
        /\ Validation(s).ok => Len(inv[s].calls) = 1
        /\ inv[s].outcome # NotYet => Len(inv[s].calls) = 1
        /\ (Returned(s) /\ inv[s].outcome.kind = "rejected") =>
             /\ Len(inv[s].calls) = 1
             /\ MarkedError(inv[s].result)
        /\ Succeeded(s) => Len(inv[s].calls) = 1 /\ inv[s].outcome.kind = "resolved"

C21_Witness ==
    \E s \in DOMAIN inv :
      /\ Returned(s)
      /\ inv[s].name = "list_boards"
      /\ inv[s].outcome.kind = "rejected"
      /\ Len(inv[s].calls) = 1
      /\ inv[s].calls[1].method = "getMyBoards"

\* The business fields the arguments of slot s set.
OwnFields(s) ==
    {k \in DOMAIN inv[s].args.v \ Credentials : inv[s].args.v[k] # Undefined}
\* Slot s is done with the envelope its own collaborator outcome calls for.
AnsweredFromOwnOutcome(s) ==
    LET outcome == inv[s].outcome
        r == inv[s].result
    IN  /\ IsEnvelope(r)
        /\ outcome # NotYet
        /\ CollaboratorSucceeded(s) =>
             /\ ~MarkedError(r)
             /\ Get(ResultOf(s)[IF inv[s].name = "trello_create_board"
                                  THEN "board" ELSE "checkItem"], "id")
                  = Get(Get(outcome.value, "data"), "id")
             /\ ResultOf(s).rateLimit = Get(outcome.value, "rateLimit")
        /\ ~CollaboratorSucceeded(s) => MarkedError(r)
        /\ CollaboratorFailed(s) => r.content[1].text.v[4] = outcome.error.message
\* What holds of every invocation in every state while others are in flight.
IsolatedState ==
    \A s \in DOMAIN inv :
      /\ inv[s].pc = "idle" => inv[s] = Idle
      /\ Dispatched(s) =>
           /\ Len(inv[s].calls) = 1
           /\ inv[s].calls[1].apiKey = Field(inv[s].args, "apiKey")
           /\ inv[s].calls[1].token = Field(inv[s].args, "token")
           /\ DOMAIN Sent(inv[s].calls[1]) = OwnFields(s)
           /\ \A k \in OwnFields(s) : Sent(inv[s].calls[1])[k] = inv[s].args.v[k]
      /\ Returned(s) => AnsweredFromOwnOutcome(s)
      /\ \A t \in DOMAIN inv :
           (/\ Returned(s) /\ Returned(t)
            /\ inv[s].name = inv[t].name
            /\ inv[s].args = inv[t].args
            /\ inv[s].outcome = inv[t].outcome) => inv[s].result = inv[t].result
\* What holds of every step while others are in flight: it is the step of
\* one invocation, and an invocation keeps its name and arguments, and the
\* call it made, until it has been answered.
IsolatedStep ==
    \A s \in DOMAIN inv :
      /\ inv[s]' # inv[s] => \A t \in DOMAIN inv \ {s} : inv[t]' = inv[t]
      /\ inv[s].pc # "idle" /\ inv[s]'.pc # "idle" =>
           /\ inv[s]'.name = inv[s].name
           /\ inv[s]'.args = inv[s].args
           /\ inv[s].calls # <<>> => inv[s]'.calls = inv[s].calls
           /\ inv[s].outcome # NotYet => inv[s]'.outcome = inv[s].outcome

\* C22: with several invocations in flight, suspended at their collaborator
\* calls and completing in any order, the request of each invocation carries
\* the credentials and the payload of its own arguments, its envelope is the
\* one its own arguments and its own collaborator outcome call for, and a
\* step of one invocation leaves every other invocation as it was.
C22_InvocationsIsolated == [](IsolatedState) /\ [][IsolatedStep]_vars

C22_Witness ==
    /\ inv[1].name = "trello_create_board"
    /\ inv[2].name = "trello_update_checklist_item"
    /\ inv[2].pc = "await"
    /\ inv[2].calls[1].apiKey # Field(inv[1].args, "apiKey")
    /\ Succeeded(1)
    /\ inv[1].calls[1].apiKey = Field(inv[1].args, "apiKey")


\* The fields of the arguments of slot s that the schema of its tool declares.
DeclaredArgs(s) ==
    LET keys == ShapeKeys(HandlerShape(Listed(inv[s].name).handler))
    IN  RawObject([k \in DOMAIN inv[s].args.v \cap keys |-> inv[s].args.v[k]])

\* C23: what is handed to a collaborator operation holds only business
\* fields the schema of the tool declares: apiKey and token go to the client
\* that is built for the invocation and are no key of the payload, and a
\* field of the arguments that the schema does not declare is not forwarded
\* and does not decide whether the invocation is accepted.
C23_OnlyDeclaredBusinessFields ==
    \A s \in DOMAIN inv :
      (Dispatched(s) /\ Registered(s)) =>
        LET shape == HandlerShape(Listed(inv[s].name).handler)
        IN  /\ Accepted(s) =>
                 LET call == inv[s].calls[1]
                 IN  /\ DOMAIN Sent(call) \cap Credentials = {}
                     /\ DOMAIN Sent(call) \subseteq ShapeKeys(shape) \ Credentials
                     /\ DOMAIN Sent(call) \cap (DOMAIN inv[s].args.v \ ShapeKeys(shape)) = {}
                     /\ call.apiKey = Field(inv[s].args, "apiKey")
                     /\ call.token = Field(inv[s].args, "token")
            /\ inv[s].args.t = "object" =>
                 (Accepted(s) <=> ZodObjectParse(shape, DeclaredArgs(s)).ok)

C23_Witness ==
    \E s \in DOMAIN inv :
      /\ Succeeded(s)
      /\ inv[s].name = "trello_create_checklist_item"
      /\ Undeclared \in DOMAIN inv[s].args.v
      /\ inv[s].args.v[Undeclared] # Undefined
      /\ Undeclared \notin DOMAIN Sent(inv[s].calls[1])
      /\ "idMember" \in DOMAIN Sent(inv[s].calls[1])
      /\ inv[s].calls[1].apiKey = inv[s].args.v["apiKey"]


====
